---- MODULE Spec2Model ----
(***************************************************************************)
(* Reconciliation engine of scraper/database.py (DatabaseManager).         *)
(*                                                                         *)
(* The SQLite store is modelled table by table.  Text values are sequences *)
(* of one-character strings so that TRIM, LIKE, SUBSTR and INSTR are       *)
(* computed, not assumed.  Monetary values are integers counted in         *)
(* thousandths of a currency unit (1000.00 = 1000000), so that ROUND(x, 2) *)
(* is a real operation; REAL arithmetic is taken as exact.  A nullable     *)
(* number is <<>> (SQL NULL) or <<n>>.                                     *)
(*                                                                         *)
(* settings.TABLE_RESULTADO_ADIANTAMENTO is read by database.py but is not *)
(* set in config/settings.py; the model takes it to name a table of its    *)
(* own ("resultado_adiantamento", the name used in the log messages).      *)
(***************************************************************************)
EXTENDS Integers, Sequences, FiniteSets, TLC

-----------------------------------------------------------------------------
(* SQL values                                                              *)

\* SQL NULL in a text column
NULL == <<"NULL">>

\* SQL NULL in a numeric column
NullNum == <<>>

Num(n) == <<n>>

\* COALESCE(x, d) on a nullable number
Coalesce(x, d) == IF x = NullNum THEN d ELSE x[1]

Abs(n) == IF n < 0 THEN -n ELSE n

Max(a, b) == IF a > b THEN a ELSE b

\* ROUND(x, 2) on thousandths: nearest hundredth, halves away from zero
Round2(n) == IF n >= 0 THEN ((n + 5) \div 10) * 10 ELSE -(((-n + 5) \div 10) * 10)

\* the string literal that "Titulos a vencer Valor nominal" denotes when the
\* table has no such column: its numeric value in an addition
TitulosAVencer == 0

-----------------------------------------------------------------------------
(* Text functions                                                          *)

RECURSIVE LTrim(_)
LTrim(s) == IF s # <<>> /\ Head(s) = " " THEN LTrim(Tail(s)) ELSE s

RECURSIVE RTrim(_)
RTrim(s) == IF s # <<>> /\ s[Len(s)] = " " THEN RTrim(SubSeq(s, 1, Len(s) - 1)) ELSE s

\* TRIM(x); NULL stays NULL
Trim(s) == IF s = NULL THEN NULL ELSE RTrim(LTrim(s))

\* UPPER on one character (ASCII letters used by the data)
UpperChar(c) ==
    CASE c = "f" -> "F" [] c = "o" -> "O" [] c = "r" -> "R" [] c = "n" -> "N"
      [] c = "e" -> "E" [] c = "c" -> "C" [] c = "d" -> "D" [] c = "s" -> "S"
      [] c = "a" -> "A" [] c = "p" -> "P" [] c = "x" -> "X" [] c = "t" -> "T"
      [] OTHER -> c

\* UPPER(x)
Upper(s) == IF s = NULL THEN NULL ELSE [i \in 1..Len(s) |-> UpperChar(s[i])]

\* x LIKE 'p%' : prefix match, case-insensitive on ASCII; NULL is not a match
LikePrefix(s, p) ==
    /\ s # NULL
    /\ Len(s) >= Len(p)
    /\ \A i \in 1..Len(p) : UpperChar(s[i]) = UpperChar(p[i])

\* x LIKE '%p%' : containment, case-insensitive on ASCII; NULL on either side
\* is not a match
LikeContains(s, p) ==
    /\ s # NULL
    /\ p # NULL
    /\ \E k \in 0..(Len(s) - Len(p)) :
          \A i \in 1..Len(p) : UpperChar(s[k + i]) = UpperChar(p[i])

\* INSTR(s || ' ', ' ')
InstrSpace(s) ==
    LET t == s \o <<" ">>
    IN  CHOOSE i \in 1..Len(t) : t[i] = " " /\ \A j \in 1..(i - 1) : t[j] # " "

\* SUBSTR(s, 1, INSTR(s || ' ', ' ') - 1)
FirstWord(s) == IF s = NULL THEN NULL ELSE SubSeq(s, 1, InstrSpace(s) - 1)

\* NULLIF(x, '')
NullIfEmpty(s) == IF s = <<>> THEN NULL ELSE s

\* SQL "a = b" used as a condition: NULL on either side is not a match
SqlEq(a, b) == a # NULL /\ b # NULL /\ a = b

FORNEC == <<"F","O","R","N","E","C">>

FORNECEDORES == <<"F","O","R","N","E","C","E","D","O","R","E","S">>

FORNECEDORES_CONSOLIDADO == FORNECEDORES \o <<" ","(","C","o","n","s","o","l","i","d","a","d","o",")">>

NAC == <<"N","A","C">>

CONCILIACAO == <<"C","o","n","c","i","l","i","a","c","a","o">>

-----------------------------------------------------------------------------
(* Status values of the result tables                                      *)

Conferido == "Conferido"

Divergente == "Divergente"

Pendente == "Pendente"

\* SQL NULL in the status column
NullStatus == "NULL"

\* CHECK(status IN ('Conferido', 'Divergente', 'Pendente'))
StatusCheck == {Conferido, Divergente, Pendente}

\* FORNECEDORES_EXCLUIR / UPPER(tipo_titulo) IN ('NDF', 'PA')
TiposAdiantamento == {<<"N","D","F">>, <<"P","A">>}

-----------------------------------------------------------------------------
(* Bounds and the rows the imported files may hold                         *)

MaxLedgerRows == 2

MaxModelo1Rows == 2

MaxAdiantamentoRows == 1

MaxItensRows == 1

C123 == <<"1","2","3">>

C456 == <<"4","5","6">>

C789 == <<"7","8","9">>

NF == <<"N","F">>

PA == <<"P","A">>

ACME == <<"A","C","M","E">>

FORNEC_NAC == FORNEC \o <<" ">> \o NAC

FORNECEDORES_NAC == FORNECEDORES \o <<" ">> \o NAC

FORNECEDORES_EXT == FORNECEDORES \o <<" ","E","X","T">>

BANCOS == <<"B","A","N","C","O","S">>

\* cleaned rows of the ledger file (finr150): saldo_devedor is never NULL
\* after cleaning (fillna(0)); excluido is 0 unless the file carries the column
LedgerPool == <<
    [fornecedor |-> C123, titulo |-> 1, tipo_titulo |-> NF, saldo_devedor |-> 1000000, excluido |-> 0],
    [fornecedor |-> C456, titulo |-> 2, tipo_titulo |-> NF, saldo_devedor |-> 1000000, excluido |-> 0],
    [fornecedor |-> C789, titulo |-> 3, tipo_titulo |-> NF, saldo_devedor |-> 500000,  excluido |-> 0],
    [fornecedor |-> C123, titulo |-> 4, tipo_titulo |-> PA, saldo_devedor |-> 200005,  excluido |-> 0],
    [fornecedor |-> C789, titulo |-> 5, tipo_titulo |-> NF, saldo_devedor |-> 0,       excluido |-> 0],
    [fornecedor |-> C456, titulo |-> 6, tipo_titulo |-> NF, saldo_devedor |-> 300000,  excluido |-> 1] >>

\* _clean_modelo1_data: tipo_fornecedor from the account description
TipoFornecedor(descricao_conta) ==
    LET x == IF descricao_conta = NULL THEN <<"N","A","N">> ELSE Upper(descricao_conta)
    IN  IF LikeContains(x, FORNEC) /\ LikeContains(x, NAC)
        THEN <<"F","O","R","N","E","C","E","D","O","R"," ","N","A","C","I","O","N","A","L">>
        ELSE IF LikeContains(x, FORNEC)
             THEN <<"F","O","R","N","E","C","E","D","O","R">>
             ELSE <<"O","U","T","R","O","S">>

Modelo1Row(dc, cf, df, sa) ==
    [descricao_conta |-> dc, codigo_fornecedor |-> cf, descricao_fornecedor |-> df,
     saldo_atual |-> Num(sa), tipo_fornecedor |-> TipoFornecedor(dc)]

\* cleaned rows of the trial-balance file (ctbr040): saldo_atual is never NULL
\* after cleaning (fillna(0))
Modelo1Pool == <<
    Modelo1Row(FORNEC_NAC,       C123, ACME,             1000000),
    Modelo1Row(FORNEC_NAC,       C123, ACME,             -20000),
    Modelo1Row(FORNECEDORES_NAC, NULL, FORNECEDORES_NAC, 700000),
    Modelo1Row(FORNECEDORES_EXT, NULL, C456,             300000),
    Modelo1Row(BANCOS,           C456, ACME,             800000) >>

\* rows of the advance file (ctbr100): no numeric cleaning, saldo_atual may be NULL
AdiantamentoPool == <<
    [codigo_fornecedor |-> C123, descricao_fornecedor |-> ACME, saldo_atual |-> Num(150000)],
    [codigo_fornecedor |-> C789, descricao_fornecedor |-> ACME, saldo_atual |-> NullNum] >>

\* rows of the item-detail file (ctbr140)
ItensPool == <<
    [conta_contabil |-> <<"2","1","2","3">>, descricao_item |-> <<"I","T","E","M">>, saldo_atual |-> Num(100000)] >>

\* the rows of the pool at the positions picked, in file order
RowsOf(pool, picked) ==
    LET RECURSIVE Scan(_)
        Scan(i) == IF i > Len(pool) THEN <<>>
                   ELSE (IF i \in picked THEN <<pool[i]>> ELSE <<>>) \o Scan(i + 1)
    IN  Scan(1)

\* the files of at most max rows: distinct rows (drop_duplicates) in file order
Files(pool, max) ==
    {RowsOf(pool, f) : f \in {g \in SUBSET (DOMAIN pool) : Cardinality(g) <= max}}

\* the files an import may load into each table
LedgerFiles == Files(LedgerPool, MaxLedgerRows)

Modelo1Files == Files(Modelo1Pool, MaxModelo1Rows)

ItensFiles == Files(ItensPool, MaxItensRows)

AdiantamentoFiles == Files(AdiantamentoPool, MaxAdiantamentoRows)

-----------------------------------------------------------------------------
(* Column resolution of import_from_excel                                  *)

\* names of the table columns
col_fornecedor == <<"f","o","r","n","e","c","e","d","o","r">>

col_titulo == <<"t","i","t","u","l","o">>

col_parcela == <<"p","a","r","c","e","l","a">>

col_tipo_titulo == <<"t","i","p","o","_","t","i","t","u","l","o">>

col_data_emissao == <<"d","a","t","a","_","e","m","i","s","s","a","o">>

col_data_vencimento == <<"d","a","t","a","_","v","e","n","c","i","m","e","n","t","o">>

col_vencto_real == <<"v","e","n","c","t","o","_","r","e","a","l">>

col_valor_original == <<"v","a","l","o","r","_","o","r","i","g","i","n","a","l">>

col_saldo_devedor == <<"s","a","l","d","o","_","d","e","v","e","d","o","r">>

col_situacao == <<"s","i","t","u","a","c","a","o">>

col_conta_contabil == <<"c","o","n","t","a","_","c","o","n","t","a","b","i","l">>

col_centro_custo == <<"c","e","n","t","r","o","_","c","u","s","t","o">>

col_descricao_conta == <<"d","e","s","c","r","i","c","a","o","_","c","o","n","t","a">>

col_saldo_anterior == <<"s","a","l","d","o","_","a","n","t","e","r","i","o","r">>

col_debito == <<"d","e","b","i","t","o">>

col_credito == <<"c","r","e","d","i","t","o">>

col_movimento_periodo == <<"m","o","v","i","m","e","n","t","o","_","p","e","r","i","o","d","o">>

col_saldo_atual == <<"s","a","l","d","o","_","a","t","u","a","l">>

col_descricao_item == <<"d","e","s","c","r","i","c","a","o","_","i","t","e","m">>

col_codigo_fornecedor == <<"c","o","d","i","g","o","_","f","o","r","n","e","c","e","d","o","r">>

col_descricao_fornecedor == <<"d","e","s","c","r","i","c","a","o","_","f","o","r","n","e","c","e","d","o","r">>

\* headers of the source files
hdr_Codigo_Nome_do_Fornecedor == <<"C","o","d","i","g","o","-","N","o","m","e"," ","d","o"," ","F","o","r","n","e","c","e","d","o","r">>

hdr_Prf_Numero_Parcela == <<"P","r","f","-","N","u","m","e","r","o"," ","P","a","r","c","e","l","a">>

hdr_Tp == <<"T","p">>

hdr_Data_de_Emissao == <<"D","a","t","a"," ","d","e"," ","E","m","i","s","s","a","o">>

hdr_Data_Emissao == <<"D","a","t","a"," ","E","m","i","s","s","a","o">>

hdr_Data_de_Vencto == <<"D","a","t","a"," ","d","e"," ","V","e","n","c","t","o">>

hdr_Data_Vencimento == <<"D","a","t","a"," ","V","e","n","c","i","m","e","n","t","o">>

hdr_VenctoReal == <<"V","e","n","c","t","o","R","e","a","l">>

hdr_Valor_Original == <<"V","a","l","o","r"," ","O","r","i","g","i","n","a","l">>

hdr_Tit_Vencidos_Valor_nominal == <<"T","i","t"," ","V","e","n","c","i","d","o","s"," ","V","a","l","o","r"," ","n","o","m","i","n","a","l">>

hdr_Natureza == <<"N","a","t","u","r","e","z","a">>

hdr_Porta_dor == <<"P","o","r","t","a","-"," ","d","o","r">>

hdr_Conta == <<"C","o","n","t","a">>

hdr_Descricao == <<"D","e","s","c","r","i","c","a","o">>

hdr_Saldo_anterior == <<"S","a","l","d","o"," ","a","n","t","e","r","i","o","r">>

hdr_Debito == <<"D","e","b","i","t","o">>

hdr_Credito == <<"C","r","e","d","i","t","o">>

hdr_Mov_periodo == <<"M","o","v"," "," ","p","e","r","i","o","d","o">>

hdr_Saldo_atual == <<"S","a","l","d","o"," ","a","t","u","a","l">>

hdr_Codigo == <<"C","o","d","i","g","o">>

hdr_Descricao_1 == <<"D","e","s","c","r","i","c","a","o",".","1">>

hdr_Codigo_1 == <<"C","o","d","i","g","o",".","1">>

hdr_Movimento_do_periodo == <<"M","o","v","i","m","e","n","t","o"," ","d","o"," ","p","e","r","i","o","d","o">>

CONTA_NAO_IDENTIFICADA == <<"C","O","N","T","A","_","N","A","O","_","I","D","E","N","T","I","F","I","C","A","D","A">>

UpperLetters == <<"A","B","C","D","E","F","G","H","I","J","K","L","M","N","O","P","Q","R","S","T","U","V","W","X","Y","Z">>

LowerLetters == <<"a","b","c","d","e","f","g","h","i","j","k","l","m","n","o","p","q","r","s","t","u","v","w","x","y","z">>

\* the characters of the names in code-point order
CodePoints ==
    <<" ","-",".","0","1","2","3","4","5","6","7","8","9","A","B","C","D","E","F","G","H","I","J","K","L","M","N","O","P","Q","R","S","T","U","V","W","X","Y","Z","_","a","b","c","d","e","f","g","h","i","j","k","l","m","n","o","p","q","r","s","t","u","v","w","x","y","z">>

\* str.lower() on one character
LowerChar(c) ==
    IF \E i \in DOMAIN UpperLetters : UpperLetters[i] = c
    THEN LowerLetters[CHOOSE i \in DOMAIN UpperLetters : UpperLetters[i] = c]
    ELSE c

\* str.lower()
Lower(s) == [i \in 1..Len(s) |-> LowerChar(s[i])]

Ord(c) == CHOOSE i \in DOMAIN CodePoints : CodePoints[i] = c

\* a < b on Python strings
RECURSIVE StrLess(_, _)
StrLess(a, b) ==
    IF a = <<>> THEN b # <<>>
    ELSE IF b = <<>> THEN FALSE
    ELSE IF Head(a) = Head(b) THEN StrLess(Tail(a), Tail(b))
    ELSE Ord(Head(a)) < Ord(Head(b))

\* length of the longest block of equal characters that ends at a[i] and b[j]
RECURSIVE CommonSuffix(_, _, _, _)
CommonSuffix(a, b, i, j) ==
    IF i >= 1 /\ j >= 1 /\ a[i] = b[j] THEN 1 + CommonSuffix(a, b, i - 1, j - 1) ELSE 0

\* the element of a set of one element; {F(x) : x \in {e}} names the value of
\* e as x, so that F uses it without computing it again
Only(S) == CHOOSE v \in S : TRUE

\* for every pair of positions, the longest common block that ends there
SuffixSizes(a, b) == [p \in (1..Len(a)) \X (1..Len(b)) |-> CommonSuffix(a, b, p[1], p[2])]

\* the greatest size, 0 when a string is empty
MaxSize(size) ==
    IF DOMAIN size = {} THEN 0
    ELSE CHOOSE n \in {size[p] : p \in DOMAIN size} : \A p \in DOMAIN size : size[p] <= n

\* among the ends of the blocks of size k, the block that starts earliest in a
\* and then earliest in b
EarliestBlock(best, k) ==
    IF k = 0 THEN [i |-> 1, j |-> 1, k |-> 0]
    ELSE Only({[i |-> q[1] - k + 1, j |-> q[2] - k + 1, k |-> k] :
                 q \in {p \in best : \A r \in best : \/ p[1] < r[1]
                                                     \/ p[1] = r[1] /\ p[2] <= r[2]}})

\* the longest block given the sizes
LongestBlock(size) ==
    Only({EarliestBlock({p \in DOMAIN size : size[p] = k}, k) : k \in {MaxSize(size)}})

\* difflib.SequenceMatcher.find_longest_match without junk: the longest
\* matching block, the earliest in a and then the earliest in b
find_longest_match(a, b) == Only({LongestBlock(size) : size \in {SuffixSizes(a, b)}})

\* get_matching_blocks around the block m: m and the blocks left and right of it
RECURSIVE MatchingSize(_, _)
AroundBlock(a, b, m) ==
    IF m.k = 0 THEN 0
    ELSE m.k + MatchingSize(SubSeq(a, 1, m.i - 1), SubSeq(b, 1, m.j - 1))
             + MatchingSize(SubSeq(a, m.i + m.k, Len(a)), SubSeq(b, m.j + m.k, Len(b)))

\* difflib.SequenceMatcher.get_matching_blocks: the number of matched characters
MatchingSize(a, b) ==
    IF a = <<>> \/ b = <<>> THEN 0
    ELSE Only({AroundBlock(a, b, m) : m \in {find_longest_match(a, b)}})

\* cutoff=0.6 of get_close_matches, in tenths
CutoffTenths == 6

\* the possibility of the highest ratio 2*M/(len(x)+len(word)) >= cutoff, the
\* greater string on a tie; the empty list when there is none
BestMatch(word, M) ==
    LET T(x) == Len(x) + Len(word)
        good == {x \in DOMAIN M : 20 * M[x] >= CutoffTenths * T(x)}
        Beats(x, y) == \/ M[x] * T(y) > M[y] * T(x)
                       \/ M[x] * T(y) = M[y] * T(x) /\ StrLess(y, x)
    IN  IF good = {} THEN <<>>
        ELSE <<CHOOSE x \in good : \A y \in good \ {x} : Beats(x, y)>>

\* difflib.get_close_matches(word, possibilities, n=1, cutoff=0.6)
get_close_matches(word, possibilities) ==
    Only({BestMatch(word, M) :
            M \in {[x \in {possibilities[i] : i \in DOMAIN possibilities} |->
                       MatchingSize(x, word)]}})

\* col in df.columns
HasColumn(cols, c) == \E i \in DOMAIN cols : cols[i] = c

\* df.rename(columns={src: dest})
Rename(cols, src, dest) == [i \in DOMAIN cols |-> IF cols[i] = src THEN dest ELSE cols[i]]

\* df.rename(columns=mapping), the mapping given as its items
RenameAll(cols, mapping) ==
    [i \in DOMAIN cols |->
        IF \E k \in DOMAIN mapping : mapping[k][1] = cols[i]
        THEN mapping[CHOOSE k \in DOMAIN mapping : mapping[k][1] = cols[i]][2]
        ELSE cols[i]]

\* list.remove(c)
Remove(s, c) == SelectSeq(s, LAMBDA x : x # c)

\* settings.COLUNAS_FINANCEIRO: column of the table -> header of the file
COLUNAS_FINANCEIRO == <<
    <<col_fornecedor, hdr_Codigo_Nome_do_Fornecedor>>,
    <<col_titulo, hdr_Prf_Numero_Parcela>>,
    <<col_tipo_titulo, hdr_Tp>>,
    <<col_data_emissao, hdr_Data_de_Emissao>>,
    <<col_data_vencimento, hdr_Data_de_Vencto>>,
    <<col_vencto_real, hdr_VenctoReal>>,
    <<col_valor_original, hdr_Valor_Original>>,
    <<col_saldo_devedor, hdr_Tit_Vencidos_Valor_nominal>>,
    <<col_situacao, hdr_Natureza>>,
    <<col_conta_contabil, hdr_Natureza>>,
    <<col_centro_custo, hdr_Porta_dor>> >>

\* settings.COLUNAS_MODELO1
COLUNAS_MODELO1 == <<
    <<col_conta_contabil, hdr_Conta>>,
    <<col_descricao_conta, hdr_Descricao>>,
    <<col_saldo_anterior, hdr_Saldo_anterior>>,
    <<col_debito, hdr_Debito>>,
    <<col_credito, hdr_Credito>>,
    <<col_movimento_periodo, hdr_Mov_periodo>>,
    <<col_saldo_atual, hdr_Saldo_atual>> >>

\* settings.COLUNAS_CONTAS_ITENS
COLUNAS_CONTAS_ITENS == <<
    <<col_conta_contabil, hdr_Codigo>>,
    <<col_descricao_item, hdr_Descricao>>,
    <<col_codigo_fornecedor, hdr_Codigo_1>>,
    <<col_descricao_fornecedor, hdr_Descricao_1>>,
    <<col_saldo_anterior, hdr_Saldo_anterior>>,
    <<col_debito, hdr_Debito>>,
    <<col_credito, hdr_Credito>>,
    <<col_movimento_periodo, hdr_Movimento_do_periodo>>,
    <<col_saldo_atual, hdr_Saldo_atual>> >>

\* settings.COLUNAS_ADIANTAMENTO
COLUNAS_ADIANTAMENTO == COLUNAS_CONTAS_ITENS

\* _get_column_mapping for an .xlsx file of a known name
get_column_mapping(table) ==
    CASE table = "financeiro" -> COLUNAS_FINANCEIRO
      [] table = "modelo1" -> COLUNAS_MODELO1
      [] table = "contas_itens" -> COLUNAS_CONTAS_ITENS
      [] table = "adiantamento" -> COLUNAS_ADIANTAMENTO

\* get_expected_columns
get_expected_columns(table) ==
    CASE table = "financeiro" ->
            <<col_fornecedor, col_titulo, col_parcela, col_tipo_titulo, col_data_emissao,
              col_data_vencimento, col_valor_original, col_saldo_devedor, col_situacao,
              col_conta_contabil, col_centro_custo>>
      [] table = "modelo1" ->
            <<col_conta_contabil, col_descricao_conta, col_saldo_anterior, col_debito,
              col_credito, col_saldo_atual>>
      [] table \in {"contas_itens", "adiantamento"} ->
            <<col_conta_contabil, col_descricao_item, col_codigo_fornecedor,
              col_descricao_fornecedor, col_saldo_anterior, col_debito, col_credito,
              col_saldo_atual>>

\* manual_mapping of aplicar_sugestoes_colunas, header -> column, in the order
\* of the dict: the key 'Descricao' is written twice and keeps its last value;
\* the a with tilde of 'Data Emissão' is written as a
manual_mapping == <<
    <<hdr_Codigo_Nome_do_Fornecedor, col_fornecedor>>,
    <<hdr_Prf_Numero_Parcela, col_titulo>>,
    <<hdr_Tp, col_tipo_titulo>>,
    <<hdr_Data_de_Emissao, col_data_emissao>>,
    <<hdr_Data_Emissao, col_data_emissao>>,
    <<hdr_Data_de_Vencto, col_data_vencimento>>,
    <<hdr_Data_Vencimento, col_data_vencimento>>,
    <<hdr_Valor_Original, col_valor_original>>,
    <<hdr_Tit_Vencidos_Valor_nominal, col_saldo_devedor>>,
    <<hdr_Natureza, col_situacao>>,
    <<hdr_Porta_dor, col_centro_custo>>,
    <<hdr_Codigo_1, col_codigo_fornecedor>>,
    <<hdr_Descricao_1, col_descricao_fornecedor>>,
    <<hdr_Conta, col_conta_contabil>>,
    <<hdr_Descricao, col_descricao_item>>,
    <<hdr_Codigo, col_conta_contabil>> >>

\* the loop over manual_mapping.items()
RECURSIVE ApplyManual(_, _, _)
ApplyManual(k, cols, missing) ==
    IF k > Len(manual_mapping) THEN [cols |-> cols, missing |-> missing]
    ELSE LET src == manual_mapping[k][1]
             dest == manual_mapping[k][2]
         IN  IF HasColumn(cols, src) /\ HasColumn(missing, dest)
             THEN ApplyManual(k + 1, Rename(cols, src, dest), Remove(missing, dest))
             ELSE ApplyManual(k + 1, cols, missing)

\* lower_map[key]: the last candidate of that lower-case form
LowerMap(candidates, key) ==
    candidates[CHOOSE i \in DOMAIN candidates :
                  /\ Lower(candidates[i]) = key
                  /\ \A j \in DOMAIN candidates : Lower(candidates[j]) = key => j <= i]

\* the header suggested for db_col: the case-insensitive match, else the close
\* match, else the close match on lower-case forms; the empty list when none
Suggestion(db_col, candidates) ==
    LET keys == [i \in DOMAIN candidates |-> Lower(candidates[i])]
    IN  IF HasColumn(keys, Lower(db_col)) THEN <<LowerMap(candidates, Lower(db_col))>>
        ELSE LET similar == get_close_matches(db_col, candidates)
             IN  IF similar # <<>> THEN similar
                 ELSE LET similar_lower == get_close_matches(Lower(db_col), keys)
                      IN  IF similar_lower # <<>>
                          THEN <<LowerMap(candidates, similar_lower[1])>>
                          ELSE <<>>

\* the loop over list(missing_mappings)
RECURSIVE ApplySuggestions(_, _, _, _, _)
ApplySuggestion(k, todo, cols, missing, candidates, match) ==
    IF match # <<>>
    THEN ApplySuggestions(k + 1, todo, Rename(cols, match[1], todo[k]),
                          Remove(missing, todo[k]), candidates)
    ELSE ApplySuggestions(k + 1, todo, cols, missing, candidates)

ApplySuggestions(k, todo, cols, missing, candidates) ==
    IF k > Len(todo) THEN [cols |-> cols, missing |-> missing]
    ELSE Only({ApplySuggestion(k, todo, cols, missing, candidates, match) :
                 match \in {Suggestion(todo[k], candidates)}})

\* aplicar_sugestoes_colunas(df, missing_mappings)
aplicar_sugestoes_colunas(cols, missing) ==
    Only({ApplySuggestions(1, manual.missing, manual.cols, manual.missing, cols) :
            manual \in {ApplyManual(1, cols, missing)}})

\* [col for col in expected_columns if col not in df.columns]
MissingColumns(table, cols) ==
    SelectSeq(get_expected_columns(table), LAMBDA c : ~HasColumn(cols, c))

\* the check of the remaining columns that never finds one
RemainingMissingNone(table, cols) == <<>>

\* remaining_missing of import_from_excel
RemainingMissing(table, cols) == MissingColumns(table, cols)

\* the end of the column resolution: parcela is synthesized when titulo is
\* there, conta_contabil always; what stays missing is named by the error
DeriveColumns(suggested, remaining) ==
    LET parcela == HasColumn(remaining, col_parcela) /\ HasColumn(suggested, col_titulo)
        conta == HasColumn(remaining, col_conta_contabil)
        derived == (IF parcela THEN {col_parcela} ELSE {})
                       \cup (IF conta THEN {col_conta_contabil} ELSE {})
        unresolved == SelectSeq(remaining, LAMBDA c : c \notin derived)
        columns == suggested \o (IF parcela THEN <<col_parcela>> ELSE <<>>)
                             \o (IF conta THEN <<col_conta_contabil>> ELSE <<>>)
    IN  [ok |-> unresolved = <<>>, columns |-> columns, derived |-> derived,
         missing |-> unresolved]

\* import_from_excel from the column mapping to the check of the required
\* columns, on the headers of an .xlsx file: the columns of the frame, the
\* columns synthesized, and the columns named by PlanilhaFormatacaoErradaError
ResolveColumns(table, headers) ==
    LET mapped == RenameAll(headers, get_column_mapping(table))
        missing_mappings == MissingColumns(table, mapped)
    IN  IF missing_mappings = <<>>
        THEN [ok |-> TRUE, columns |-> mapped, derived |-> {}, missing |-> <<>>]
        ELSE Only({DeriveColumns(suggested, RemainingMissing(table, suggested)) :
                     suggested \in {aplicar_sugestoes_colunas(mapped, missing_mappings).cols}})

\* the headers of the files as the settings name them
Headers(table) ==
    CASE table = "financeiro" ->
            <<hdr_Codigo_Nome_do_Fornecedor, hdr_Prf_Numero_Parcela, hdr_Tp,
              hdr_Data_de_Emissao, hdr_Data_de_Vencto, hdr_VenctoReal, hdr_Valor_Original,
              hdr_Tit_Vencidos_Valor_nominal, hdr_Natureza, hdr_Porta_dor>>
      [] table = "modelo1" ->
            <<hdr_Conta, hdr_Descricao, hdr_Saldo_anterior, hdr_Debito, hdr_Credito,
              hdr_Mov_periodo, hdr_Saldo_atual>>
      [] table \in {"contas_itens", "adiantamento"} ->
            <<hdr_Codigo, hdr_Descricao, hdr_Codigo_1, hdr_Descricao_1, hdr_Saldo_anterior,
              hdr_Debito, hdr_Credito, hdr_Movimento_do_periodo, hdr_Saldo_atual>>

\* the headers a file may lack
Lacking(table) ==
    CASE table = "financeiro" -> {hdr_Prf_Numero_Parcela, hdr_Natureza, hdr_VenctoReal}
      [] table = "modelo1" -> {hdr_Conta, hdr_Debito, hdr_Saldo_atual}
      [] table \in {"contas_itens", "adiantamento"} -> {hdr_Codigo, hdr_Descricao_1}

MaxMissingHeaders == 1

Tables == {"financeiro", "modelo1", "contas_itens", "adiantamento"}

\* the header rows a file of the table may have
HeaderFiles(table) ==
    {SelectSeq(Headers(table), LAMBDA h : h \notin d) :
        d \in {g \in SUBSET Lacking(table) : Cardinality(g) <= MaxMissingHeaders}}

\* ResolveColumns on every header row (computed once)
Resolved == [t \in Tables |-> [h \in HeaderFiles(t) |-> ResolveColumns(t, h)]]

\* the rows written: a synthesized conta_contabil holds the placeholder
CleanedRows(rows, derived) ==
    [i \in DOMAIN rows |->
        IF col_conta_contabil \in derived /\ "conta_contabil" \in DOMAIN rows[i]
        THEN [rows[i] EXCEPT !.conta_contabil = CONTA_NAO_IDENTIFICADA]
        ELSE rows[i]]

\* what a call of import_from_excel returns and raises
\* table: the target; ok: the value returned; erro, raised: the exception met
\* and whether it leaves the call; columns: df.columns at the check of the
\* required columns; missing: the columns the error names; derived: the columns
\* synthesized; rows: the rows written; had_rows: the target held rows before
Retorno(table, ok, erro, raised, columns, missing, derived, rows, had_rows) ==
    [table |-> table, ok |-> ok, erro |-> erro, raised |-> raised, columns |-> columns,
     missing |-> missing, derived |-> derived, rows |-> rows, had_rows |-> had_rows]

NoRetorno == Retorno("", FALSE, "", FALSE, <<>>, <<>>, {}, <<>>, FALSE)

\* import_from_excel(file_path, table_name) on a file of extension ext; old
\* is the table before the call. Only an .xlsx file of a known name gets past
\* _get_column_mapping, which reads an undefined name for any other file
import_from_excel(table, file, old) ==
    IF file.ext = "xlsx"
    THEN LET r == Resolved[table][file.headers]
         IN  IF r.ok
             THEN Retorno(table, TRUE, "", FALSE, r.columns, <<>>, r.derived,
                          CleanedRows(file.rows, r.derived), old # <<>>)
             ELSE Retorno(table, FALSE, "PlanilhaFormatacaoErradaError", FALSE, r.columns,
                          r.missing, r.derived, <<>>, old # <<>>)
    ELSE IF file.ext \in {"xml", "txt"}
         THEN Retorno(table, FALSE, "ExcecaoNaoMapeadaError", TRUE, <<>>, <<>>, {}, <<>>,
                      old # <<>>)
         ELSE Retorno(table, FALSE, "InvalidDataFormat", FALSE, <<>>, <<>>, {}, <<>>,
                      old # <<>>)

\* df.to_sql(table_name, conn, if_exists='append')
ToSqlAppend(old, rows) == old \o rows

\* df.to_sql(table_name, conn, if_exists='replace', index=False)
ToSql(old, rows) == rows

\* the table after the call
Written(old, ret) == IF ret.ok THEN ToSql(old, ret.rows) ELSE old

MaxImportRows == 1

\* the .xlsx files a call of import_from_excel may be given: a header row and
\* at most MaxImportRows of the first two rows of the pool
XlsxFiles(table, pool) ==
    {[ext |-> "xlsx", headers |-> h, rows |-> f] :
        h \in HeaderFiles(table),
        f \in Files(SubSeq(pool, 1, IF Len(pool) > 2 THEN 2 ELSE Len(pool)), MaxImportRows)}

FinanceiroXlsx == XlsxFiles("financeiro", LedgerPool)

Modelo1Xlsx == XlsxFiles("modelo1", Modelo1Pool)

ContasItensXlsx == XlsxFiles("contas_itens", ItensPool)

AdiantamentoXlsx == XlsxFiles("adiantamento", AdiantamentoPool)

OtherFiles(table) ==
    {[ext |-> e, headers |-> Headers(table), rows |-> <<>>] : e \in {"xml", "txt", "pdf"}}

FinanceiroArquivos == FinanceiroXlsx \cup OtherFiles("financeiro")

Modelo1Arquivos == Modelo1Xlsx \cup OtherFiles("modelo1")

ContasItensArquivos == ContasItensXlsx \cup OtherFiles("contas_itens")

AdiantamentoArquivos == AdiantamentoXlsx \cup OtherFiles("adiantamento")

\* the .xml files of ctbr140 and ctbr100 a run may find
ContasItensXml == {f \in ContasItensArquivos : f.ext = "xml"}

AdiantamentoXml == {f \in AdiantamentoArquivos : f.ext = "xml"}

-----------------------------------------------------------------------------
(* The workbook of export_to_excel                                         *)

\* a workbook: sheet name -> header row; accents are left out of the names
\* the sheets export_to_excel writes, in the order of the to_excel calls
SheetsWritten ==
    <<"Titulos a Pagar", "Adiantamento TAP", "Balancete", "Adiantamento", "Contas x Itens",
      "Resumo Adiantamentos", "Resumo da Conciliacao", "Metadados">>

\* the column aliases of query_financeiro and query_adi_financeiro
HeaderFinanceiro ==
    <<"Fornecedor", "Titulo", "Parcela", "Tipo Titulo", "Data Emissao", "Data Vencimento",
      "Valor Original", "Saldo Devedor", "Situacao", "Conta Contabil", "Centro Custo">>

\* the column aliases of query_contabil
HeaderContabil ==
    <<"Conta Contabil", "Descricao Conta", "Codigo Fornecedor", "Descricao Fornecedor",
      "Saldo Anterior", "Debito", "Credito", "Saldo Atual", "Tipo Fornecedor">>

\* the column aliases of query_adiantamento and query_contas_itens
HeaderItens ==
    <<"Conta Contabil", "Descricao Item", "Codigo Fornecedor", "Descricao Fornecedor",
      "Saldo Anterior", "Saldo Atual">>

\* the column aliases of query_resumo_adiantamento
HeaderResumoAdiantamento ==
    <<"Codigo Fornecedor", "Descricao Fornecedor", "Total Financeiro", "Total Contabil",
      "Diferenca", "Status", "Detalhes">>

\* the column aliases of query_resumo
HeaderResumo ==
    <<"Descricao Fornecedor", "Saldo Contabil", "Saldo Financeiro",
      "Diferenca (Contabil - Financeiro)", "Tipo Diferenca", "Status", "Detalhes",
      "Data de Referencia">>

\* the columns of df_metadata
HeaderMetadados == <<"Item", "Valor">>

\* the header row to_excel writes on each sheet
HeaderWritten(sheet) ==
    CASE sheet \in {"Titulos a Pagar", "Adiantamento TAP"} -> HeaderFinanceiro
      [] sheet = "Balancete" -> HeaderContabil
      [] sheet \in {"Adiantamento", "Contas x Itens"} -> HeaderItens
      [] sheet = "Resumo Adiantamentos" -> HeaderResumoAdiantamento
      [] sheet = "Resumo da Conciliacao" -> HeaderResumo
      [] sheet = "Metadados" -> HeaderMetadados

\* the file after writer.close(); _apply_styles, _apply_enhanced_styles and
\* _protect_sheets add no sheet, remove none and leave row 1 as it is
SavedWorkbook ==
    [sheet \in {SheetsWritten[i] : i \in DOMAIN SheetsWritten} |-> HeaderWritten(sheet)]

\* load_workbook(output_path) in validate_output: the file as it is on disk
\* when it is opened again, which is the file written or one that lost a
\* sheet or the first cell of a header row
LoadWorkbook(saved) ==
    {saved}
        \cup {[sheet \in DOMAIN saved \ {lost} |-> saved[sheet]] :
                lost \in {"Resumo Adiantamentos", "Metadados"}}
        \cup {[saved EXCEPT !["Resumo da Conciliacao"] = Tail(@)]}

\* required_sheets of validate_output
required_sheets ==
    <<"Resumo da Conciliacao", "Titulos a Pagar", "Balancete", "Contas x Itens", "Metadados">>

\* monetary_columns of validate_output
monetary_columns == <<"Valor Financeiro", "Valor Contabil", "Diferenca">>

\* a sequence holds a value
InSeq(s, x) == \E i \in DOMAIN s : s[i] = x

\* validate_output: every required sheet is in the workbook; the number
\* format of a monetary column is looked at only if row 1 of the summary
\* sheet names the column, which no header of HeaderResumo does (cell
\* formats are not part of the workbook here, a named column fails)
validate_output(workbook) ==
    /\ \A i \in DOMAIN required_sheets : required_sheets[i] \in DOMAIN workbook
    /\ \A i \in DOMAIN monetary_columns :
          ~InSeq(workbook["Resumo da Conciliacao"], monetary_columns[i])

\* metadata_items
metadata_items ==
    <<"Data e Hora do Processamento", "Periodo de Referencia",
      "Total de Fornecedores Processados", "Conciliacoes Conferidas",
      "Conciliacoes Divergentes", "Conciliacoes Pendentes", "Total Financeiro (R$)",
      "Total Contabil (R$)", "Saldo Liquido da Conciliacao (R$)", "Legenda de Status",
      "Tolerancia de Diferenca">>

\* the texts at the end of metadata_values
TextoFormula == "Diferenca = Saldo Contabil - Saldo Financeiro"
TextoLegenda ==
    "CONFERIDO: Diferenca dentro da tolerancia (ate 3%) | DIVERGENTE: Diferenca significativa | PENDENTE: Sem correspondencia"
TextoTolerancia == "Ate 3% de discrepancia e considerada toleravel"

\* a value of metadata_values: the statistic or text it is made of, and a
\* number where it is one
Valor(de, n) == [de |-> de, n |-> n]

\* metadata_values, from the row of query_stats
metadata_values(stats) ==
    <<Valor("datetime.now", 0), Valor("data_inicial a data_final", 0),
      Valor("total_registros", stats.total_registros),
      Valor("conciliados_ok", stats.conciliados_ok),
      Valor("divergentes", stats.divergentes),
      Valor("pendentes", stats.pendentes),
      Valor("total_financeiro", stats.total_financeiro),
      Valor("total_contabil", stats.total_contabil),
      Valor("diferenca_geral", stats.diferenca_geral),
      Valor("total_divergencia", stats.total_divergencia),
      Valor(TextoFormula, 0), Valor(TextoLegenda, 0), Valor(TextoTolerancia, 0)>>

\* min(len(metadata_items), len(metadata_values))
Min(a, b) == IF a < b THEN a ELSE b

\* the rows of df_metadata: both lists cut to the shorter one
MetadataRows(items, values) ==
    [i \in 1..Min(Len(items), Len(values)) |-> [Item |-> items[i], Valor |-> values[i]]]

\* no export yet
NoPlanilha == [retorno |-> "", aberta |-> <<>>, metadados |-> <<>>, resumo |-> <<>>]

-----------------------------------------------------------------------------
(* Monetary cells in _clean_dataframe                                      *)

Digits == <<"0","1","2","3","4","5","6","7","8","9">>

\* the value of a digit character
DigitVal(c) == (CHOOSE i \in DOMAIN Digits : Digits[i] = c) - 1

IsDigit(c) == \E i \in DOMAIN Digits : Digits[i] = c

RECURSIVE DigitsOf(_)
\* the decimal digits of a natural number
DigitsOf(n) == IF n < 10 THEN <<Digits[n + 1]>> ELSE Append(DigitsOf(n \div 10), Digits[(n % 10) + 1])

RECURSIVE Grouped(_)
\* '.' between every three digits, from the right
Grouped(d) ==
    IF Len(d) <= 3 THEN d
    ELSE Grouped(SubSeq(d, 1, Len(d) - 3)) \o <<".">> \o SubSeq(d, Len(d) - 2, Len(d))

\* an amount of centavos as the report prints it: '.' thousands separator,
\* ',' decimal separator, two decimals
FormatBR(centavos) ==
    (IF centavos < 0 THEN <<"-">> ELSE <<>>)
        \o Grouped(DigitsOf(Abs(centavos) \div 100))
        \o <<",", Digits[((Abs(centavos) % 100) \div 10) + 1], Digits[(Abs(centavos) % 10) + 1]>>

\* str.replace(r'[^...]', '', regex=True): the characters of the class stay
Keep(s, class) == SelectSeq(s, LAMBDA c : IsDigit(c) \/ c \in class)

\* str.replace(old, new) with one-character old
Replace(s, old, new) == [i \in 1..Len(s) |-> IF s[i] = old THEN new ELSE s[i]]

\* str.replace(old, '')
Delete(s, old) == SelectSeq(s, LAMBDA c : c # old)

RECURSIVE NatOf(_)
\* the number a sequence of digits writes
NatOf(d) == IF d = <<>> THEN 0 ELSE 10 * NatOf(SubSeq(d, 1, Len(d) - 1)) + DigitVal(d[Len(d)])

RECURSIVE Pow10(_)
Pow10(k) == IF k = 0 THEN 1 ELSE 10 * Pow10(k - 1)

\* a stored value: a number mantissa / 10^scale, or a text
Numero(mantissa, scale) == [tipo |-> "numero", mantissa |-> mantissa, scale |-> scale]
Texto(s) == [tipo |-> "texto", texto |-> s]

\* the position of the first '.', 0 if none
DotAt(s) == IF \E i \in DOMAIN s : s[i] = "." THEN CHOOSE i \in DOMAIN s : s[i] = "." /\ \A j \in 1..(i - 1) : s[j] # "." ELSE 0

\* pd.to_numeric(errors='coerce').fillna(0) of a text of digits, '.', ','
\* and '-': an optional sign, digits with at most one '.', at least one digit;
\* anything else is NaN and becomes 0
to_numeric(s) ==
    LET neg == s # <<>> /\ Head(s) = "-"
        body == IF neg THEN Tail(s) ELSE s
        dot == DotAt(body)
        int == IF dot = 0 THEN body ELSE SubSeq(body, 1, dot - 1)
        frac == IF dot = 0 THEN <<>> ELSE SubSeq(body, dot + 1, Len(body))
        wellFormed == /\ \A i \in DOMAIN int : IsDigit(int[i])
                      /\ \A i \in DOMAIN frac : IsDigit(frac[i])
                      /\ Len(int) + Len(frac) > 0
    IN  IF ~wellFormed THEN Numero(0, 0)
        ELSE Numero((IF neg THEN -1 ELSE 1) * NatOf(int \o frac), Len(frac))

\* _clean_financeiro_data on a cell of num_cols
clean_financeiro(s) == to_numeric(Replace(Delete(Keep(s, {",", ".", "-"}), "."), ",", "."))

\* _clean_modelo1_data on a cell of num_cols
clean_modelo1(s) == to_numeric(Replace(Keep(s, {",", "-"}), ",", "."))

\* _clean_contas_itens_data converts no column to a number
clean_contas_itens(s) == Texto(s)

\* _clean_dataframe on a monetary cell, then to_sql: the branch of the sheet
\* type; there is none for 'adiantamento'
clean_dataframe(sheet_type, s) ==
    CASE sheet_type = "financeiro" -> clean_financeiro(s)
      [] sheet_type = "modelo1" -> clean_modelo1(s)
      [] sheet_type = "contas_itens" -> clean_contas_itens(s)
      [] OTHER -> Texto(s)

\* the sheet types import_from_excel is called with
SheetTypes == {"financeiro", "modelo1", "contas_itens", "adiantamento"}

\* amounts, in centavos, for the cells of a source file
Centavos ==
    {0, 5, 50, 99, 100, 1050, 99999, 100000, 123456, 1000000, 12345678, 2500000,
     -5, -100, -123456, -1000000}

\* a stored number is the amount of centavos
IsAmount(stored, centavos) ==
    /\ stored.tipo = "numero"
    /\ stored.mantissa * 100 = centavos * Pow10(stored.scale)

\* no cell
\* no execution of Conciliacao yet: the table is empty
NoConc == [relogio |-> 0, execucao |-> 0, fase |-> "idle", tabela |-> <<>>, planilha |-> {}]

\* the class before the first construction
NoManager == [instance |-> FALSE, initialized |-> FALSE, conn |-> 0, criadas |-> 0,
              abertas |-> {}, substituidas |-> {}, op |-> ""]

\* run before the end of the import loop; main before run returns
NoRun == [importacoes_realizadas |-> 0, process_data |-> "", export_to_excel |-> "",
          returned |-> FALSE, email |-> "", code |-> -1, error_count |-> 0]

NoDatas == [antes |-> <<>>, depois |-> <<>>, limpo |-> FALSE]

NoCelula == [sheet_type |-> "", centavos |-> 0, texto |-> <<>>, gravado |-> Texto(<<>>), limpo |-> FALSE]

-----------------------------------------------------------------------------
(* State                                                                   *)

VARIABLES
    financeiro,              \* TABLE_FINANCEIRO
    modelo1,                 \* TABLE_MODELO1
    contas_itens,            \* TABLE_CONTAS_ITENS
    adiantamento,            \* TABLE_ADIANTAMENTO
    resultado,               \* TABLE_RESULTADO, committed rows
    resultado_adiantamento,  \* TABLE_RESULTADO_ADIANTAMENTO, committed rows
    advLegacy,               \* the advance result table lacks total_financeiro
    lastOp,                  \* outcome of the last operation
    retorno,                 \* what the last call of import_from_excel returned (SpecImport)
    results,                 \* the results list of ProtheusScraper.run (SpecImport)
    pc,                      \* the next entry of arquivos_importar in run, 0 outside a run
    planilha,                \* what the last call of export_to_excel produced (SpecExport)
    celula,                  \* a monetary cell of a source file and its stored value (SpecClean)
    datas,                   \* a date column of the ledger file and its cleaned values (SpecDates)
    run,                     \* the locals of ProtheusScraper.run and of main after the import loop (SpecRun)
    conc,                    \* the clock, the table resultados_conciliacao and the workbook of Conciliacao (SpecConc)
    manager                  \* the DatabaseManager class and the connections it opened (SpecManager)

vars == <<financeiro, modelo1, contas_itens, adiantamento, resultado,
          resultado_adiantamento, advLegacy, lastOp, retorno, results, pc, planilha,
          celula, datas, run, conc, manager>>

-----------------------------------------------------------------------------
(* Helpers over row sequences                                              *)

RECURSIVE Distinct(_)
Distinct(s) ==
    IF s = <<>> THEN <<>>
    ELSE LET d == Distinct(SubSeq(s, 1, Len(s) - 1))
             x == s[Len(s)]
         IN  IF \E i \in 1..Len(d) : d[i] = x THEN d ELSE Append(d, x)

RECURSIVE SumInts(_)
SumInts(s) == IF s = <<>> THEN 0 ELSE Head(s) + SumInts(Tail(s))

\* SUM(x) over nullable numbers: NULLs are skipped, NULL when nothing is left
SumNullable(s) ==
    LET present == SelectSeq(s, LAMBDA v : v # NullNum)
    IN  IF present = <<>> THEN NullNum
        ELSE Num(SumInts([i \in 1..Len(present) |-> present[i][1]]))

Map(s, F(_)) == [i \in 1..Len(s) |-> F(s[i])]

\* the detalhes column: NULL, or a text kept by its parts
NoDetalhes == [kind |-> "null", abs |-> 0, parts |-> <<>>]

Detalhes(kind, abs, parts) == [kind |-> kind, abs |-> abs, parts |-> parts]

-----------------------------------------------------------------------------
(* process_data, primary pass                                              *)

\* a DELETE that is left out: the rows of the earlier run stay
DeleteFromNothing(rows) == rows

\* DELETE FROM <result table>
DeleteFrom(rows) == <<>>

\* a filter that also drops the entries with no open balance
LedgerFilterPositive(f) == f.excluido = 0 /\ f.saldo_devedor > 0

\* WHERE excluido = 0 of query_financeiro
LedgerFilter(f) == f.excluido = 0

\* query_financeiro: one row per TRIM(fornecedor), status 'Pendente'; the
\* columns left out take their DEFAULT (0 for the REAL columns)
InsertFinanceiro(res, fin) ==
    LET rows == SelectSeq(fin, LedgerFilter)
        keys == Distinct(Map(rows, LAMBDA f : Trim(f.fornecedor)))
        Total(k) == SumInts(Map(SelectSeq(rows, LAMBDA f : Trim(f.fornecedor) = k),
                                LAMBDA f : f.saldo_devedor))
    IN  res \o Map(keys, LAMBDA k :
            [codigo_fornecedor |-> k, descricao_fornecedor |-> k,
             saldo_contabil |-> Num(0), saldo_financeiro |-> Num(Total(k)),
             diferenca |-> Num(0), status |-> Pendente,
             detalhes |-> NoDetalhes, ordem_importancia |-> NullNum])

\* WHERE of query_contabil_update: code equality OR description equality
ContabilMatch(m, r) ==
    \/ SqlEq(m.codigo_fornecedor, r.codigo_fornecedor) /\ m.codigo_fornecedor # <<>>
    \/ SqlEq(m.descricao_fornecedor, r.descricao_fornecedor)

\* query_contabil_update
UpdateContabil(res, mod) ==
    LET ms == mod
        Matched(r) == SelectSeq(ms, LAMBDA m : ContabilMatch(m, r))
        Concat(r) ==
            LET parts == SelectSeq(Matched(r), LAMBDA m : m.saldo_atual # NullNum)
            IN  IF parts = <<>> THEN NoDetalhes
                ELSE Detalhes("contabil", 0,
                        Map(parts, LAMBDA m : [texto |-> m.tipo_fornecedor, valor |-> m.saldo_atual]))
    IN  Map(res, LAMBDA r :
            IF Matched(r) = <<>> THEN r
            ELSE [r EXCEPT
                    !.saldo_contabil =
                        Num(Coalesce(SumNullable(Map(Matched(r), LAMBDA m : m.saldo_atual)), 0)),
                    !.detalhes = Concat(r)])

\* query_adiantamento: advance balances are added to the accounting total
UpdateAdiantamento(res, adi) ==
    LET as == adi
        Matched(r) == SelectSeq(as, LAMBDA a : SqlEq(a.codigo_fornecedor, r.codigo_fornecedor))
    IN  Map(res, LAMBDA r :
            IF Matched(r) = <<>> THEN r
            ELSE [r EXCEPT !.saldo_contabil =
                    IF r.saldo_contabil = NullNum THEN NullNum
                    ELSE Num(r.saldo_contabil[1]
                             + Coalesce(SumNullable(Map(Matched(r), LAMBDA a : a.saldo_atual)), 0))])

\* COALESCE(NULLIF(TRIM(m.codigo_fornecedor), ''), SUBSTR(m.descricao_conta, 1, ...))
ChaveContabil(m) ==
    LET c == IF m.codigo_fornecedor = NULL THEN NULL ELSE NullIfEmpty(Trim(m.codigo_fornecedor))
    IN  IF c # NULL THEN c ELSE FirstWord(m.descricao_conta)

\* the CASE that gives the inserted codigo_fornecedor
CodigoSemMatch(m) ==
    IF LikePrefix(Upper(m.descricao_conta), FORNECEDORES) THEN FORNECEDORES
    ELSE ChaveContabil(m)

\* the CASE that gives the inserted descricao_fornecedor
DescricaoSemMatch(m) ==
    IF LikePrefix(Upper(m.descricao_conta), FORNECEDORES) THEN FORNECEDORES_CONSOLIDADO
    ELSE LET d == IF m.descricao_fornecedor = NULL THEN NULL
                  ELSE NullIfEmpty(Trim(m.descricao_fornecedor))
         IN  IF d # NULL THEN d ELSE m.descricao_conta

\* GROUP BY of query_contabeis_sem_match
GrupoSemMatch(m) == <<CodigoSemMatch(m), DescricaoSemMatch(m), m.tipo_fornecedor>>

\* query_contabeis_sem_match: accounting lines of supplier accounts whose key
\* is the code of no result row
InsertContabeisSemMatch(res, mod) ==
    LET ms == SelectSeq(mod, LAMBDA m :
                  /\ LikePrefix(m.descricao_conta, FORNEC)
                  /\ ~ \E i \in 1..Len(res) : SqlEq(res[i].codigo_fornecedor, ChaveContabil(m)))
        groups == Distinct(Map(ms, GrupoSemMatch))
    IN  res \o Map(groups, LAMBDA g :
            [codigo_fornecedor |-> g[1], descricao_fornecedor |-> g[2],
             saldo_contabil |-> SumNullable(Map(SelectSeq(ms, LAMBDA m : GrupoSemMatch(m) = g),
                                                LAMBDA m : m.saldo_atual)),
             saldo_financeiro |-> Num(0),
             diferenca |-> Num(0), status |-> Pendente,
             detalhes |-> IF g[3] = NULL THEN NoDetalhes
                          ELSE Detalhes("tipo", 0, <<[texto |-> g[3], valor |-> NullNum]>>),
             ordem_importancia |-> NullNum])

\* the difference taken the other way round: accounting minus ledger
DiferencaOfContabilMenosFinanceiro(fin, cont) ==
    Num(Round2(Coalesce(cont, 0) - Coalesce(fin, 0)))

\* diferenca = ROUND(COALESCE(financeiro,0) - COALESCE(contabil,0), 2)
DiferencaOf(fin, cont) == Num(Round2(Coalesce(fin, 0) - Coalesce(cont, 0)))

\* a status CASE without its ELSE branch: NULL where Divergente was due
StatusOfNoElse(fin, cont) ==
    LET f == Coalesce(fin, 0)
        c == Coalesce(cont, 0)
        base == IF Abs(c) > Abs(f) THEN Abs(c) ELSE Abs(f)
    IN  IF cont = NullNum /\ fin = NullNum THEN Pendente
        ELSE IF 100 * Abs(f - c) <= 3 * base THEN Conferido
        ELSE NullStatus

\* a status CASE with an absolute threshold of 0.01 in place of the 3%
StatusOfAbsoluteThreshold(fin, cont) ==
    LET f == Coalesce(fin, 0)
        c == Coalesce(cont, 0)
    IN  IF cont = NullNum /\ fin = NullNum THEN Pendente
        ELSE IF Abs(f - c) <= 10 THEN Conferido
        ELSE Divergente

\* the status CASE of query_diferenca: 0.03 * max(|contabil|, |financeiro|)
StatusOf(fin, cont) ==
    LET f == Coalesce(fin, 0)
        c == Coalesce(cont, 0)
        base == IF Abs(c) > Abs(f) THEN Abs(c) ELSE Abs(f)
    IN  IF cont = NullNum /\ fin = NullNum THEN Pendente
        ELSE IF 100 * Abs(f - c) <= 3 * base THEN Conferido
        ELSE Divergente

\* query_diferenca
UpdateDiferenca(res) ==
    Map(res, LAMBDA r :
        [r EXCEPT !.diferenca = DiferencaOf(r.saldo_financeiro, r.saldo_contabil),
                  !.status = StatusOf(r.saldo_financeiro, r.saldo_contabil)])

\* WHERE ci.conta_contabil LIKE '%' || codigo_fornecedor || '%'
ItemMatch(ci, r) == LikeContains(ci.conta_contabil, r.codigo_fornecedor)

\* the GROUP_CONCAT of query_investigacao: 'Item: ' || descricao_item ||
\* ' (Valor: R$ ' || saldo_atual || ')' over every matching line; the LIMIT 5
\* bounds the rows of the aggregate query, which returns a single row
ItensEncontrados(itens, r) ==
    SelectSeq(SelectSeq(itens, LAMBDA ci : ItemMatch(ci, r)),
              LAMBDA ci : ci.descricao_item # NULL /\ ci.saldo_atual # NullNum)

\* query_investigacao: Divergente rows with a matching item line
UpdateInvestigacao(res, itens) ==
    Map(res, LAMBDA r :
        IF r.status = Divergente
           /\ \E i \in 1..Len(itens) : ItemMatch(itens[i], r)
        THEN [r EXCEPT !.detalhes =
                IF r.diferenca = NullNum THEN NoDetalhes
                ELSE IF ItensEncontrados(itens, r) = <<>>
                     THEN Detalhes("nenhum_item", Abs(r.diferenca[1]), <<>>)
                     ELSE Detalhes("itens", Abs(r.diferenca[1]),
                            Map(ItensEncontrados(itens, r), LAMBDA ci :
                                [texto |-> ci.descricao_item, valor |-> ci.saldo_atual]))]
        ELSE r)

\* detalhes LIKE '%Conciliação%'
DetalhesLikeConciliacao(d) ==
    \E i \in 1..Len(d.parts) : LikeContains(d.parts[i].texto, CONCILIACAO)

\* the UPDATE for Divergente rows left without detail: 'Investigar manualmente'
UpdateManual(res) ==
    Map(res, LAMBDA r :
        IF r.status = Divergente
           /\ (r.detalhes = NoDetalhes \/ DetalhesLikeConciliacao(r.detalhes))
        THEN [r EXCEPT !.detalhes =
                IF r.diferenca = NullNum THEN NoDetalhes
                ELSE Detalhes("manual", Abs(r.diferenca[1]), <<>>)]
        ELSE r)

\* a rank that counts the rows strictly above: ties on the first place
RankOfStrict(res, r) ==
    1 + Cardinality({j \in 1..Len(res) :
            Abs(Coalesce(res[j].diferenca, 0)) > Abs(Coalesce(r.diferenca, 0))})

\* a rank that leaves the row itself out of the count
RankOfOthers(res, r) ==
    Cardinality({j \in 1..Len(res) :
        Abs(Coalesce(res[j].diferenca, 0)) >= Abs(Coalesce(r.diferenca, 0))}) - 1

\* SELECT COUNT(*) FROM resultado r2 WHERE ABS(r2.diferenca) >= ABS(diferenca)
RankOf(res, r) ==
    Cardinality({j \in 1..Len(res) :
        Abs(Coalesce(res[j].diferenca, 0)) >= Abs(Coalesce(r.diferenca, 0))})

\* the ranking UPDATE
UpdateOrdem(res) == Map(res, LAMBDA r : [r EXCEPT !.ordem_importancia = Num(RankOf(res, r))])

\* the last UPDATE of detalhes: its CASE tests 'OK' and 'PENDENTE'
UpdateDetalhesFinal(res) ==
    Map(res, LAMBDA r :
        [r EXCEPT !.detalhes =
            IF r.status = "OK" THEN Detalhes("conciliacao_perfeita", 0, <<>>)
            ELSE IF r.status = "PENDENTE"
                 THEN Detalhes("pendente", 0,
                        <<[texto |-> <<>>, valor |-> Num(Coalesce(r.saldo_financeiro, 0))],
                          [texto |-> <<>>, valor |-> Num(Coalesce(r.saldo_contabil, 0))],
                          [texto |-> <<>>, valor |-> Num(Coalesce(r.diferenca, 0))]>>)
                 ELSE r.detalhes])

-----------------------------------------------------------------------------
(* _process_adiantamentos                                                  *)

\* WHERE excluido = 0 AND UPPER(tipo_titulo) IN ('NDF', 'PA')
AdiantamentoFilter(f) ==
    f.excluido = 0 /\ f.tipo_titulo # NULL /\ Upper(f.tipo_titulo) \in TiposAdiantamento

\* query_adiantamento_financeiro
InsertAdiantamentoFinanceiro(adv, fin) ==
    LET rows == SelectSeq(fin, AdiantamentoFilter)
        keys == Distinct(Map(rows, LAMBDA f : Trim(f.fornecedor)))
        Total(k) == SumInts(Map(SelectSeq(rows, LAMBDA f : Trim(f.fornecedor) = k),
                                LAMBDA f : f.saldo_devedor))
    IN  adv \o Map(keys, LAMBDA k :
            [codigo_fornecedor |-> k, descricao_fornecedor |-> k,
             total_financeiro |-> Num(Total(k)), total_contabil |-> Num(0),
             diferenca |-> Num(0), status |-> Pendente, detalhes |-> NoDetalhes])

\* query_soma_valores: saldo_devedor + "Titulos a vencer Valor nominal"
UpdateSomaValores(adv, fin) ==
    LET all == fin
        Sel(r) == SelectSeq(all, LAMBDA f :
                      SqlEq(f.fornecedor, r.codigo_fornecedor) /\ AdiantamentoFilter(f))
    IN  Map(adv, LAMBDA r :
            IF \E i \in 1..Len(all) :
                  /\ SqlEq(all[i].fornecedor, r.codigo_fornecedor)
                  /\ all[i].tipo_titulo # NULL
                  /\ Upper(all[i].tipo_titulo) \in TiposAdiantamento
            THEN [r EXCEPT !.total_financeiro =
                    Num(SumInts(Map(Sel(r), LAMBDA f : f.saldo_devedor + TitulosAVencer)))]
            ELSE r)

\* query_contabil_update of the advance pass
UpdateAdiantamentoContabil(adv, adi) ==
    LET as == adi
        Matched(r) == SelectSeq(as, LAMBDA a : SqlEq(a.codigo_fornecedor, r.codigo_fornecedor))
        Parts(r) == SelectSeq(Matched(r), LAMBDA a :
                        a.descricao_fornecedor # NULL /\ a.saldo_atual # NullNum)
    IN  Map(adv, LAMBDA r :
            IF Matched(r) = <<>> THEN r
            ELSE [r EXCEPT
                    !.total_contabil =
                        Num(Coalesce(SumNullable(Map(Matched(r), LAMBDA a : a.saldo_atual)), 0)),
                    !.detalhes =
                        IF Parts(r) = <<>> THEN Detalhes("adiantamento_nenhum", 0, <<>>)
                        ELSE Detalhes("adiantamento", 0,
                                Map(Parts(r), LAMBDA a :
                                    [texto |-> a.descricao_fornecedor, valor |-> a.saldo_atual]))])

\* query_contabeis_sem_match of the advance pass
InsertAdiantamentoSemMatch(adv, adi) ==
    LET as == SelectSeq(adi, LAMBDA a :
                  /\ a.codigo_fornecedor # NULL
                  /\ a.codigo_fornecedor # <<>>
                  /\ ~ \E i \in 1..Len(adv) : SqlEq(adv[i].codigo_fornecedor, a.codigo_fornecedor))
        groups == Distinct(Map(as, LAMBDA a : <<a.codigo_fornecedor, a.descricao_fornecedor>>))
    IN  adv \o Map(groups, LAMBDA g :
            [codigo_fornecedor |-> g[1], descricao_fornecedor |-> g[2],
             total_financeiro |-> Num(0),
             total_contabil |-> SumNullable(Map(
                 SelectSeq(as, LAMBDA a : <<a.codigo_fornecedor, a.descricao_fornecedor>> = g),
                 LAMBDA a : a.saldo_atual)),
             diferenca |-> Num(0), status |-> Pendente,
             detalhes |-> Detalhes("sem_correspondencia", 0, <<>>)])

\* query_diferenca of the advance pass
UpdateAdiantamentoDiferenca(adv) ==
    Map(adv, LAMBDA r :
        [r EXCEPT !.diferenca = DiferencaOf(r.total_financeiro, r.total_contabil),
                  !.status = StatusOf(r.total_financeiro, r.total_contabil)])

-----------------------------------------------------------------------------
(* process_data as one transaction                                         *)

\* the statements of process_data, in order; RankStep is the one wrapped in
\* its own try/except, RecreateStep the PRAGMA check of _process_adiantamentos
NSteps == 19

RankStep == 11

RecreateStep == 13

\* CHECK(status IN (...)) as SQLite evaluates it: a NULL status passes
CheckStatus(rows) ==
    \A i \in 1..Len(rows) : rows[i].status = NullStatus \/ rows[i].status \in StatusCheck

\* st.res, st.adv: the tables as the open transaction sees them;
\* st.cres, st.cadv, st.clegacy: what the last commit made durable
Commit(st) == [st EXCEPT !.cres = st.res, !.cadv = st.adv, !.clegacy = st.legacy]

\* self.conn.rollback()
Rollback(st) == [st EXCEPT !.res = st.cres, !.adv = st.cadv, !.legacy = st.clegacy]

\* _recreate_adiantamento_table: DROP, CREATE, then self.conn.commit()
RecreateAdiantamentoTable(st) == Commit([st EXCEPT !.adv = <<>>, !.legacy = FALSE])

\* the effect of statement k
Step(k, st) ==
    CASE k = 1  -> st
      [] k = 2  -> [st EXCEPT !.res = DeleteFrom(st.res)]
      [] k = 3  -> [st EXCEPT !.adv = DeleteFrom(st.adv)]
      [] k = 4  -> [st EXCEPT !.res = InsertFinanceiro(st.res, financeiro)]
      [] k = 5  -> [st EXCEPT !.res = UpdateContabil(st.res, modelo1)]
      [] k = 6  -> [st EXCEPT !.res = UpdateAdiantamento(st.res, adiantamento)]
      [] k = 7  -> [st EXCEPT !.res = InsertContabeisSemMatch(st.res, modelo1)]
      [] k = 8  -> [st EXCEPT !.res = UpdateDiferenca(st.res)]
      [] k = 9  -> [st EXCEPT !.res = UpdateInvestigacao(st.res, contas_itens)]
      [] k = 10 -> [st EXCEPT !.res = UpdateManual(st.res)]
      [] k = RankStep -> [st EXCEPT !.res = UpdateOrdem(st.res)]
      [] k = 12 -> [st EXCEPT !.res = UpdateDetalhesFinal(st.res)]
      [] k = RecreateStep -> IF st.legacy THEN RecreateAdiantamentoTable(st) ELSE st
      [] k = 14 -> [st EXCEPT !.adv = InsertAdiantamentoFinanceiro(st.adv, financeiro)]
      [] k = 15 -> [st EXCEPT !.adv = UpdateSomaValores(st.adv, financeiro)]
      [] k = 16 -> [st EXCEPT !.adv = UpdateAdiantamentoContabil(st.adv, adiantamento)]
      [] k = 17 -> [st EXCEPT !.adv = InsertAdiantamentoSemMatch(st.adv, adiantamento)]
      [] k = 18 -> [st EXCEPT !.adv = UpdateAdiantamentoDiferenca(st.adv)]
      [] k = NSteps -> Commit(st)

\* the CHECK constraints reject what a statement wrote
CheckFails(st) == ~ CheckStatus(st.res) \/ (~ st.legacy /\ ~ CheckStatus(st.adv))

\* statement k run from st.  A statement whose writes a CHECK constraint
\* rejects raises (st.raised): its effect is lost and no later statement
\* runs.  The ranking statement is wrapped in its own try/except: when it
\* raises (rankRaises, or a CHECK failure) the error is logged and the run
\* goes on without its effect
Exec(k, st, rankRaises) ==
    IF st.raised THEN st
    ELSE LET t == Step(k, st)
         IN  IF k = RankStep
             THEN IF rankRaises \/ CheckFails(t) THEN st ELSE t
             ELSE IF CheckFails(t) THEN [st EXCEPT !.raised = TRUE] ELSE t

\* the states process_data goes through: T[1] is the state at BEGIN and
\* T[k + 1] the state after statement k
RECURSIVE Trace(_, _, _)
Trace(k, T, rankRaises) ==
    IF k > NSteps THEN T
    ELSE Trace(k + 1, Append(T, Exec(k, T[Len(T)], rankRaises)), rankRaises)

\* the except branch of process_data: rollback, then raise
Failed(st) == [Rollback(st) EXCEPT !.ok = FALSE]

\* how process_data ends when the environment fails statement failAt
\* (0: none) along the trace T
Outcome(T, failAt) ==
    IF failAt \notin {0, RankStep} THEN Failed(T[failAt])
    ELSE IF T[NSteps + 1].raised THEN Failed(T[NSteps + 1])
    ELSE [T[NSteps + 1] EXCEPT !.ok = TRUE]

\* the trace of process_data from the current store
RunTrace(rankRaises) ==
    Trace(1, <<[res |-> resultado, adv |-> resultado_adiantamento, legacy |-> advLegacy,
                cres |-> resultado, cadv |-> resultado_adiantamento, clegacy |-> advLegacy,
                raised |-> FALSE, ok |-> FALSE]>>,
          rankRaises)

-----------------------------------------------------------------------------
(* Actions                                                                 *)

\* the store after construction: the tables exist and hold what earlier
\* sessions left in the database file; an advance result table created by an
\* earlier version may lack the total_financeiro column
Init ==
    /\ financeiro = <<>>
    /\ modelo1 = <<>>
    /\ contas_itens = <<>>
    /\ adiantamento = <<>>
    /\ resultado = <<>>
    /\ resultado_adiantamento = <<>>
    /\ advLegacy \in BOOLEAN
    /\ lastOp = "init"
    /\ retorno = NoRetorno
    /\ results = <<>>
    /\ pc = 0
    /\ planilha = NoPlanilha
    /\ celula = NoCelula
    /\ datas = NoDatas
    /\ run = NoRun
    /\ conc = NoConc
    /\ manager = NoManager

\* ProtheusScraper.run imports the files before it calls process_data
Importing == lastOp \in {"init", "import"}

\* import_from_excel of finr150: to_sql(if_exists='replace')
ImportFinanceiro ==
    /\ Importing
    /\ \E f \in LedgerFiles : financeiro' = f
    /\ lastOp' = "import"
    /\ UNCHANGED <<modelo1, contas_itens, adiantamento, resultado, resultado_adiantamento, advLegacy,
                   retorno, results, pc, planilha, celula, datas, run, conc, manager>>

\* import_from_excel of ctbr040
ImportModelo1 ==
    /\ Importing
    /\ \E f \in Modelo1Files : modelo1' = f
    /\ lastOp' = "import"
    /\ UNCHANGED <<financeiro, contas_itens, adiantamento, resultado, resultado_adiantamento, advLegacy,
                   retorno, results, pc, planilha, celula, datas, run, conc, manager>>

\* import_from_excel of ctbr140
ImportContasItens ==
    /\ Importing
    /\ \E f \in ItensFiles : contas_itens' = f
    /\ lastOp' = "import"
    /\ UNCHANGED <<financeiro, modelo1, adiantamento, resultado, resultado_adiantamento, advLegacy,
                   retorno, results, pc, planilha, celula, datas, run, conc, manager>>

\* import_from_excel of ctbr100
ImportAdiantamento ==
    /\ Importing
    /\ \E f \in AdiantamentoFiles : adiantamento' = f
    /\ lastOp' = "import"
    /\ UNCHANGED <<financeiro, modelo1, contas_itens, resultado, resultado_adiantamento, advLegacy,
                   retorno, results, pc, planilha, celula, datas, run, conc, manager>>

\* what process_data leaves behind
Finish(st) ==
    /\ resultado' = st.res
    /\ resultado_adiantamento' = st.adv
    /\ advLegacy' = st.legacy
    /\ lastOp' = IF st.ok THEN "committed" ELSE "failed"
    /\ UNCHANGED <<financeiro, modelo1, contas_itens, adiantamento, retorno, results, pc,
                   planilha, celula, datas, run, conc, manager>>

\* ProtheusScraper.run lets the exception of process_data end the session,
\* and ends after export_to_excel
SessionOpen == lastOp \notin {"failed", "exported"}

\* process_data, every statement executes
ProcessData ==
    /\ SessionOpen
    /\ \E T \in {RunTrace(FALSE)} : Finish(Outcome(T, 0))

\* process_data, the ranking statement raises
ProcessDataRankError ==
    /\ SessionOpen
    /\ \E T \in {RunTrace(TRUE)} : Finish(Outcome(T, RankStep))

\* process_data, another statement raises
ProcessDataError ==
    /\ SessionOpen
    /\ \E T \in {RunTrace(FALSE)} :
          \E k \in (1..NSteps) \ {RankStep} : Finish(Outcome(T, k))

Next ==
    \/ ImportFinanceiro
    \/ ImportModelo1
    \/ ImportContasItens
    \/ ImportAdiantamento
    \/ ProcessData

Spec == Init /\ [][Next]_vars

NextFault ==
    \/ ImportFinanceiro
    \/ ImportModelo1
    \/ ImportContasItens
    \/ ImportAdiantamento
    \/ ProcessData
    \/ ProcessDataRankError
    \/ ProcessDataError

SpecFault == Init /\ [][NextFault]_vars

-----------------------------------------------------------------------------
(* import_from_excel with its column resolution, and the import loop of    *)
(* ProtheusScraper.run                                                     *)

\* a session calls import_from_excel directly (pc = 0) or is a run (pc >= 1)
InitImport ==
    /\ financeiro = <<>>
    /\ modelo1 = <<>>
    /\ contas_itens = <<>>
    /\ adiantamento = <<>>
    /\ resultado = <<>>
    /\ resultado_adiantamento = <<>>
    /\ advLegacy = FALSE
    /\ lastOp = "init"
    /\ retorno = NoRetorno
    /\ results = <<>>
    /\ pc \in {0, 1}
    /\ planilha = NoPlanilha
    /\ celula = NoCelula
    /\ datas = NoDatas
    /\ run = NoRun
    /\ conc = NoConc
    /\ manager = NoManager

\* import_from_excel(finr150, TABLE_FINANCEIRO)
ImportFromExcelFinanceiro ==
    /\ pc = 0
    /\ \E file \in FinanceiroArquivos :
          \E ret \in {import_from_excel("financeiro", file, financeiro)} :
              /\ financeiro' = Written(financeiro, ret)
              /\ retorno' = ret
    /\ lastOp' = "import"
    /\ UNCHANGED <<modelo1, contas_itens, adiantamento, resultado, resultado_adiantamento,
                   advLegacy, results, pc, planilha, celula, datas, run, conc, manager>>

\* import_from_excel(ctbr040, TABLE_MODELO1)
ImportFromExcelModelo1 ==
    /\ pc = 0
    /\ \E file \in Modelo1Arquivos :
          \E ret \in {import_from_excel("modelo1", file, modelo1)} :
              /\ modelo1' = Written(modelo1, ret)
              /\ retorno' = ret
    /\ lastOp' = "import"
    /\ UNCHANGED <<financeiro, contas_itens, adiantamento, resultado, resultado_adiantamento,
                   advLegacy, results, pc, planilha, celula, datas, run, conc, manager>>

\* import_from_excel(ctbr140, TABLE_CONTAS_ITENS)
ImportFromExcelContasItens ==
    /\ pc = 0
    /\ \E file \in ContasItensArquivos :
          \E ret \in {import_from_excel("contas_itens", file, contas_itens)} :
              /\ contas_itens' = Written(contas_itens, ret)
              /\ retorno' = ret
    /\ lastOp' = "import"
    /\ UNCHANGED <<financeiro, modelo1, adiantamento, resultado, resultado_adiantamento,
                   advLegacy, results, pc, planilha, celula, datas, run, conc, manager>>

\* import_from_excel(ctbr100, TABLE_ADIANTAMENTO)
ImportFromExcelAdiantamento ==
    /\ pc = 0
    /\ \E file \in AdiantamentoArquivos :
          \E ret \in {import_from_excel("adiantamento", file, adiantamento)} :
              /\ adiantamento' = Written(adiantamento, ret)
              /\ retorno' = ret
    /\ lastOp' = "import"
    /\ UNCHANGED <<financeiro, modelo1, contas_itens, resultado, resultado_adiantamento,
                   advLegacy, results, pc, planilha, celula, datas, run, conc, manager>>

\* arquivos_importar of ProtheusScraper.run: the name of the source and the
\* extension of its file
arquivos_importar ==
    << <<"financeiro", "xlsx">>, <<"modelo1", "xlsx">>,
       <<"contas_itens", "xml">>, <<"adiantamento", "xml">> >>

\* the files the k-th source of the run may find in the download directory
RunArquivos(k) ==
    CASE k = 1 -> FinanceiroXlsx
      [] k = 2 -> Modelo1Xlsx
      [] k = 3 -> ContasItensXml
      [] k = 4 -> AdiantamentoXml

\* the table named
TableOf(table) ==
    CASE table = "financeiro" -> financeiro
      [] table = "modelo1" -> modelo1
      [] table = "contas_itens" -> contas_itens
      [] table = "adiantamento" -> adiantamento

\* results.append({'status': ..., 'message': ... nome ..., 'etapa': 'importação'})
Entry(nome, status) == [nome |-> nome, status |-> status]

\* ProtheusScraper.run, one iteration of the import loop: a file that does
\* not exist is skipped; import_from_excel returning False or raising gives
\* the 'error' entry
ImportarArquivo ==
    /\ pc \in DOMAIN arquivos_importar
    /\ \E exists \in BOOLEAN :
          IF ~exists
          THEN UNCHANGED <<financeiro, modelo1, contas_itens, adiantamento, retorno,
                           results, lastOp>>
          ELSE \E file \in RunArquivos(pc) :
                  \E ret \in {import_from_excel(arquivos_importar[pc][1], file,
                                                TableOf(arquivos_importar[pc][1]))} :
                      /\ financeiro' = IF pc = 1 THEN Written(financeiro, ret) ELSE financeiro
                      /\ modelo1' = IF pc = 2 THEN Written(modelo1, ret) ELSE modelo1
                      /\ contas_itens' = IF pc = 3 THEN Written(contas_itens, ret)
                                         ELSE contas_itens
                      /\ adiantamento' = IF pc = 4 THEN Written(adiantamento, ret)
                                         ELSE adiantamento
                      /\ retorno' = ret
                      /\ results' = Append(results,
                                           Entry(ret.table, IF ret.ok THEN "success" ELSE "error"))
                      /\ lastOp' = "import"
    /\ pc' = pc + 1
    /\ UNCHANGED <<resultado, resultado_adiantamento, advLegacy, planilha, celula, datas, conc, manager>>

\* the import loop of a run that is followed here up to the end of the loop
RunImportar == ImportarArquivo /\ UNCHANGED <<run, conc, manager>>

\* the next run of the scraper on the same database file
RunAgain ==
    /\ pc = Len(arquivos_importar) + 1
    /\ pc' = 1
    /\ results' = <<>>
    /\ UNCHANGED <<financeiro, modelo1, contas_itens, adiantamento, resultado,
                   resultado_adiantamento, advLegacy, lastOp, retorno, planilha, celula, datas, run, conc, manager>>

NextImport ==
    \/ ImportFromExcelFinanceiro
    \/ ImportFromExcelModelo1
    \/ ImportFromExcelContasItens
    \/ ImportFromExcelAdiantamento
    \/ RunImportar
    \/ RunAgain

SpecImport == InitImport /\ [][NextImport]_vars

-----------------------------------------------------------------------------
(* export_to_excel                                                         *)

\* a - b in SQL
SqlMinus(a, b) == IF a = NullNum \/ b = NullNum THEN NullNum ELSE Num(a[1] - b[1])

\* the row of query_stats over the result table
Stats(res) ==
    [total_registros |-> Len(res),
     conciliados_ok |-> Len(SelectSeq(res, LAMBDA r : r.status = Conferido)),
     divergentes |-> Len(SelectSeq(res, LAMBDA r : r.status = Divergente)),
     pendentes |-> Len(SelectSeq(res, LAMBDA r : r.status = Pendente)),
     total_financeiro |-> SumNullable([i \in 1..Len(res) |-> res[i].saldo_financeiro]),
     total_contabil |-> SumNullable([i \in 1..Len(res) |-> res[i].saldo_contabil]),
     diferenca_geral |->
        SqlMinus(SumNullable([i \in 1..Len(res) |-> res[i].saldo_financeiro]),
                 SumNullable([i \in 1..Len(res) |-> res[i].saldo_contabil])),
     total_divergencia |->
        SumNullable([i \in 1..Len(res) |->
                        IF res[i].status = Divergente THEN res[i].diferenca ELSE Num(0)])]

\* a total of query_stats is NULL
NullTotal(stats) ==
    NullNum \in {stats.total_financeiro, stats.total_contabil, stats.diferenca_geral,
                 stats.total_divergencia}

\* the except branch of export_to_excel: raise ResultsSaveError
ExportRaised ==
    [retorno |-> "ResultsSaveError", aberta |-> <<>>, metadados |-> <<>>, resumo |-> <<>>]

\* pd.to_numeric(errors="coerce").fillna(0) on a column of query_resumo
FillNa0(x) == IF x = NullNum THEN 0 ELSE x[1]

\* query_resumo: the rows of the sheet 'Resumo da Conciliacao', one for each
\* row of the result table and here in the order of the table; the fourth
\* column is (saldo_contabil - saldo_financeiro)
Resumo(res) ==
    [i \in 1..Len(res) |->
        [descricao_fornecedor |-> res[i].descricao_fornecedor,
         saldo_contabil |-> FillNa0(res[i].saldo_contabil),
         saldo_financeiro |-> FillNa0(res[i].saldo_financeiro),
         diferenca |-> FillNa0(SqlMinus(res[i].saldo_contabil, res[i].saldo_financeiro)),
         status |-> IF res[i].status \in {Conferido, Divergente} THEN res[i].status
                    ELSE Pendente]]

\* the end of export_to_excel once the file is written: validate_output on
\* the file opened again, ValueError (raised again as ResultsSaveError) when
\* it returns False, else return output_path
ExportWritten(res, aberta) ==
    [retorno |-> IF validate_output(aberta) THEN "output_path" ELSE "ResultsSaveError",
     aberta |-> aberta,
     metadados |-> MetadataRows(metadata_items, metadata_values(Stats(res))),
     resumo |-> Resumo(res)]

\* export_to_excel: int() of a NULL count raises when the result table is
\* empty, query_resumo_adiantamento raises without the total_financeiro
\* column; a NULL total is formatted as 'nan' or raises, by how read_sql
\* delivers it
export_to_excel(res, legacy) ==
    IF res = <<>> \/ legacy THEN {ExportRaised}
    ELSE (IF NullTotal(Stats(res)) THEN {ExportRaised} ELSE {})
            \cup {ExportWritten(res, aberta) : aberta \in LoadWorkbook(SavedWorkbook)}

\* ProtheusScraper.run calls export_to_excel after process_data returned
ExportToExcel ==
    /\ lastOp = "committed"
    /\ \E p \in export_to_excel(resultado, advLegacy) :
          /\ planilha' = p
          /\ lastOp' = "exported"
    /\ UNCHANGED <<financeiro, modelo1, contas_itens, adiantamento, resultado,
                   resultado_adiantamento, advLegacy, retorno, results, pc, celula, datas, run, conc, manager>>

NextExport ==
    \/ ImportFinanceiro
    \/ ImportModelo1
    \/ ImportContasItens
    \/ ImportAdiantamento
    \/ ProcessData
    \/ ExportToExcel

SpecExport == Init /\ [][NextExport]_vars

-----------------------------------------------------------------------------
(* process_data over item-level files of many lines                        *)

MaxItemLines == 6

\* the lines of an item-level file: one whose account holds the code 123 and
\* one of another counterparty
ItemLinePool ==
    <<ItensPool[1],
      [conta_contabil |-> <<"2","4","5","6">>, descricao_item |-> <<"I","T","E","M">>,
       saldo_atual |-> Num(50000)]>>

\* the item-level files of at most MaxItemLines lines
ItemLineFiles ==
    UNION {[1..n -> {ItemLinePool[k] : k \in DOMAIN ItemLinePool}] : n \in 0..MaxItemLines}

\* the ledger holds one entry of counterparty 123 and no accounting line
\* matches it, which makes its row Divergente
InitItens ==
    /\ financeiro = <<LedgerPool[1]>>
    /\ modelo1 = <<>>
    /\ contas_itens \in ItemLineFiles
    /\ adiantamento = <<>>
    /\ resultado = <<>>
    /\ resultado_adiantamento = <<>>
    /\ advLegacy = FALSE
    /\ lastOp = "import"
    /\ retorno = NoRetorno
    /\ results = <<>>
    /\ pc = 0
    /\ planilha = NoPlanilha
    /\ celula = NoCelula
    /\ datas = NoDatas
    /\ run = NoRun
    /\ conc = NoConc
    /\ manager = NoManager

NextItens == ProcessData

SpecItens == InitItens /\ [][NextItens]_vars

-----------------------------------------------------------------------------
(* _clean_dataframe on one monetary cell                                   *)

\* a cell of a source file that holds an amount in locale format
InitClean ==
    /\ financeiro = <<>>
    /\ modelo1 = <<>>
    /\ contas_itens = <<>>
    /\ adiantamento = <<>>
    /\ resultado = <<>>
    /\ resultado_adiantamento = <<>>
    /\ advLegacy = FALSE
    /\ lastOp = "init"
    /\ retorno = NoRetorno
    /\ results = <<>>
    /\ pc = 0
    /\ planilha = NoPlanilha
    /\ \E t \in SheetTypes : \E c \in Centavos :
          celula = [sheet_type |-> t, centavos |-> c, texto |-> FormatBR(c),
                    gravado |-> Texto(<<>>), limpo |-> FALSE]
    /\ datas = NoDatas
    /\ run = NoRun
    /\ conc = NoConc
    /\ manager = NoManager

\* import_from_excel cleans the cell and stores it with to_sql
CleanDataframe ==
    /\ ~celula.limpo
    /\ celula' = [celula EXCEPT !.gravado = clean_dataframe(celula.sheet_type, celula.texto),
                                !.limpo = TRUE]
    /\ UNCHANGED <<financeiro, modelo1, contas_itens, adiantamento, resultado,
                   resultado_adiantamento, advLegacy, lastOp, retorno, results, pc, planilha, datas, run, conc, manager>>

NextClean == CleanDataframe

SpecClean == InitClean /\ [][NextClean]_vars

-----------------------------------------------------------------------------
(* _clean_financeiro_data on one date column                                *)

MaxDateRows == 3

\* the missing timestamp
NaT == [y |-> 0, m |-> 0, d |-> 0]

\* the cells of data_emissao / data_vencimento: day-first, year-first, padded,
\* not a date, empty
DatePool ==
    { <<"0","1","/","0","9","/","2","0","2","5">>,
      <<"2","0","2","5","-","0","9","-","0","1">>,
      <<" ","1","5","/","1","0","/","2","0","2","5">>,
      <<"a","b","c">>,
      <<>> }

DateColumns == UNION {[1..n -> DatePool] : n \in 0..MaxDateRows}

AllDigits(t) == \A i \in DOMAIN t : IsDigit(t[i])

Date(y, m, d) == [y |-> y, m |-> m, d |-> d]

\* a calendar date; dateutil reads 'a/b/yyyy' month-first when b is no month
DayFirst(a, b, y) ==
    IF b \in 1..12 /\ a \in 1..31 THEN Date(y, b, a)
    ELSE IF a \in 1..12 /\ b \in 1..31 THEN Date(y, a, b)
    ELSE NaT

IsDayFirstText(t) ==
    /\ Len(t) = 10
    /\ t[3] = "/" /\ t[6] = "/"
    /\ AllDigits(SubSeq(t, 1, 2) \o SubSeq(t, 4, 5) \o SubSeq(t, 7, 10))

IsYearFirstText(t) ==
    /\ Len(t) = 10
    /\ t[5] = "-" /\ t[8] = "-"
    /\ AllDigits(SubSeq(t, 1, 4) \o SubSeq(t, 6, 7) \o SubSeq(t, 9, 10))

\* '%d/%m/%Y' with dayfirst=True
ParseDayFirst(t) ==
    IF IsDayFirstText(t)
    THEN DayFirst(NatOf(SubSeq(t, 1, 2)), NatOf(SubSeq(t, 4, 5)), NatOf(SubSeq(t, 7, 10)))
    ELSE NaT

\* ISO 8601 is read year-month-day whatever dayfirst says
ParseYearFirst(t) ==
    IF IsYearFirstText(t) /\ NatOf(SubSeq(t, 6, 7)) \in 1..12 /\ NatOf(SubSeq(t, 9, 10)) \in 1..31
    THEN Date(NatOf(SubSeq(t, 1, 4)), NatOf(SubSeq(t, 6, 7)), NatOf(SubSeq(t, 9, 10)))
    ELSE NaT

\* .replace(['', 'nan', 'None', 'NaT'], np.nan) after .astype(str).str.strip()
IsNaText(t) ==
    t \in { <<>>, <<"n","a","n">>, <<"N","o","n","e">>, <<"N","a","T">> }

\* one value parsed on its own, errors='coerce'
ParseOne(t) ==
    IF IsNaText(t) THEN NaT
    ELSE IF ParseYearFirst(t) # NaT THEN ParseYearFirst(t)
    ELSE ParseDayFirst(t)

\* the format guessed from the first value that is not NaN
GuessedFormat(col) ==
    LET present == {i \in DOMAIN col : ~IsNaText(col[i])}
    IN  IF present = {} THEN "none"
        ELSE LET first == col[CHOOSE i \in present : \A j \in present : i <= j]
             IN  IF ParseYearFirst(first) # NaT THEN "iso"
                 ELSE IF ParseDayFirst(first) # NaT THEN "dayfirst"
                 ELSE "none"

\* one value parsed with the format of the column
ParseWith(format, t) ==
    IF IsNaText(t) THEN NaT
    ELSE IF format = "iso" THEN ParseYearFirst(t)
    ELSE IF format = "dayfirst" THEN ParseDayFirst(t)
    ELSE ParseOne(t)

\* pd.to_datetime(column, dayfirst=True, errors='coerce'): every value on its
\* own (pandas 1), or every value with the format of the first (pandas 2)
to_datetime(col) ==
    { [i \in DOMAIN col |-> ParseOne(col[i])],
      [i \in DOMAIN col |-> ParseWith(GuessedFormat(col), col[i])] }

Pad(d, n) == IF Len(d) >= n THEN d ELSE [i \in 1..(n - Len(d)) |-> "0"] \o d

\* .dt.strftime('%d/%m/%Y')
strftime(dt) == Pad(DigitsOf(dt.d), 2) \o <<"/">> \o Pad(DigitsOf(dt.m), 2) \o <<"/">> \o Pad(DigitsOf(dt.y), 4)

\* the column after the conversion block: when a value is NaT the column is
\* first formatted '%Y-%m-%d' and is an object column, so the second .dt
\* raises, the except branch catches it and sets the whole column to None
FormatColumn(parsed) ==
    IF \E i \in DOMAIN parsed : parsed[i] = NaT
    THEN [i \in DOMAIN parsed |-> NULL]
    ELSE [i \in DOMAIN parsed |-> strftime(parsed[i])]

\* the date block of _clean_financeiro_data on one column
clean_dates(col) ==
    {FormatColumn(parsed) : parsed \in to_datetime([i \in DOMAIN col |-> RTrim(LTrim(col[i]))])}

InitDates ==
    /\ financeiro = <<>>
    /\ modelo1 = <<>>
    /\ contas_itens = <<>>
    /\ adiantamento = <<>>
    /\ resultado = <<>>
    /\ resultado_adiantamento = <<>>
    /\ advLegacy = FALSE
    /\ lastOp = "init"
    /\ retorno = NoRetorno
    /\ results = <<>>
    /\ pc = 0
    /\ planilha = NoPlanilha
    /\ celula = NoCelula
    /\ \E col \in DateColumns : datas = [antes |-> col, depois |-> <<>>, limpo |-> FALSE]
    /\ run = NoRun
    /\ conc = NoConc
    /\ manager = NoManager

\* _clean_financeiro_data converts the column; no exception leaves the block
CleanDates ==
    /\ ~datas.limpo
    /\ \E depois \in clean_dates(datas.antes) :
          datas' = [datas EXCEPT !.depois = depois, !.limpo = TRUE]
    /\ UNCHANGED <<financeiro, modelo1, contas_itens, adiantamento, resultado,
                   resultado_adiantamento, advLegacy, lastOp, retorno, results, pc, planilha,
                   celula, run, conc, manager>>

NextDates == CleanDates

SpecDates == InitDates /\ [][NextDates]_vars

-----------------------------------------------------------------------------
(* ProtheusScraper.run after the extraction, and main                       *)

\* the results list when the import loop starts: the login and the three
\* extractions appended a 'success' entry each, or the first try block ended
\* on the 'critical_error' entry
Extracoes ==
    { <<Entry("Login", "success"), Entry("Financeiro", "success"),
        Entry("Modelo_1", "success"), Entry("Contas x Itens", "success")>>,
      <<Entry("processo_principal", "critical_error")>> }

InitRun ==
    /\ financeiro = <<>>
    /\ modelo1 = <<>>
    /\ contas_itens = <<>>
    /\ adiantamento = <<>>
    /\ resultado = <<>>
    /\ resultado_adiantamento = <<>>
    /\ advLegacy = FALSE
    /\ lastOp = "init"
    /\ retorno = NoRetorno
    /\ results \in Extracoes
    /\ pc = 1
    /\ planilha = NoPlanilha
    /\ celula = NoCelula
    /\ datas = NoDatas
    /\ run = NoRun
    /\ conc = NoConc
    /\ manager = NoManager

\* the import loop: importacoes_realizadas counts the calls of
\* import_from_excel that returned True
RunImportacao ==
    /\ ImportarArquivo
    /\ run' = [run EXCEPT !.importacoes_realizadas =
                  IF Len(results') > Len(results) /\ results'[Len(results')].status = "success"
                  THEN @ + 1 ELSE @]

\* the mutation of the gate: process_data whatever the imports gave
ImportacoesBastamSempre(n) == n >= 0

\* if importacoes_realizadas > 0
ImportacoesBastam(n) == n > 0

\* the import loop is over and run has not ended
AfterImports == pc = Len(arquivos_importar) + 1 /\ ~run.returned

\* 'Nenhum arquivo foi importado com sucesso': process_data is skipped
RunSemImportacao ==
    /\ AfterImports
    /\ ~ImportacoesBastam(run.importacoes_realizadas)
    /\ results' = Append(results, Entry("importacao", "error"))
    /\ run' = [run EXCEPT !.returned = TRUE]
    /\ UNCHANGED <<financeiro, modelo1, contas_itens, adiantamento, resultado,
                   resultado_adiantamento, advLegacy, lastOp, retorno, pc, planilha, celula,
                   datas, conc, manager>>

\* db.process_data() in run: True after the commit; the exception goes to the
\* outer except, which appends the 'critical_error' entry, and run returns
RunProcess(st) ==
    /\ resultado' = st.res
    /\ resultado_adiantamento' = st.adv
    /\ advLegacy' = st.legacy
    /\ lastOp' = IF st.ok THEN "committed" ELSE "failed"
    /\ results' = IF st.ok THEN results ELSE Append(results, Entry("database", "critical_error"))
    /\ run' = [run EXCEPT !.process_data = IF st.ok THEN "True" ELSE "raised",
                          !.returned = ~st.ok]
    /\ UNCHANGED <<financeiro, modelo1, contas_itens, adiantamento, retorno, pc, planilha,
                   celula, datas, conc, manager>>

MayProcess ==
    /\ AfterImports
    /\ ImportacoesBastam(run.importacoes_realizadas)
    /\ run.process_data = ""

\* every statement executes
RunProcessData ==
    /\ MayProcess
    /\ \E T \in {RunTrace(FALSE)} : RunProcess(Outcome(T, 0))

\* the ranking statement raises
RunProcessDataRankError ==
    /\ MayProcess
    /\ \E T \in {RunTrace(TRUE)} : RunProcess(Outcome(T, RankStep))

\* another statement raises
RunProcessDataError ==
    /\ MayProcess
    /\ \E T \in {RunTrace(FALSE)} :
          \E k \in (1..NSteps) \ {RankStep} : RunProcess(Outcome(T, k))

\* if db.process_data(): output_path = db.export_to_excel()
ProcessReturnedTrue(r) == r.process_data = "True"

\* db.export_to_excel() in run: the path gives the 'success' entry,
\* ResultsSaveError goes to the outer except; then run returns
RunExportToExcel ==
    /\ pc = Len(arquivos_importar) + 1
    /\ ProcessReturnedTrue(run)
    /\ run.export_to_excel = ""
    /\ \E p \in export_to_excel(resultado, advLegacy) :
          /\ planilha' = p
          /\ results' = Append(results,
                               IF p.retorno = "output_path"
                               THEN Entry("processamento", "success")
                               ELSE Entry("database", "critical_error"))
          /\ run' = [run EXCEPT !.export_to_excel = p.retorno, !.returned = TRUE]
    /\ lastOp' = "exported"
    /\ UNCHANGED <<financeiro, modelo1, contas_itens, adiantamento, resultado,
                   resultado_adiantamento, advLegacy, retorno, pc, celula, datas, conc, manager>>

\* len([r for r in results if r.get('status') == 'success'])
success_count(res) == Cardinality({i \in DOMAIN res : res[i].status = "success"})

\* main after scraper.run(): run raises nothing, so the try block goes on to
\* send_success_email and main returns 0
Main ==
    /\ run.returned
    /\ run.email = ""
    /\ run' = [run EXCEPT !.email = "success", !.code = 0,
                          !.error_count = Len(results) - success_count(results)]
    /\ UNCHANGED <<financeiro, modelo1, contas_itens, adiantamento, resultado,
                   resultado_adiantamento, advLegacy, lastOp, retorno, results, pc, planilha,
                   celula, datas, conc, manager>>

\* the next execution of main on the same database file: a new process, in
\* which no call has returned yet
MainAgain ==
    /\ run.email # ""
    /\ \E r \in Extracoes : results' = r
    /\ pc' = 1
    /\ run' = NoRun
    /\ lastOp' = "init"
    /\ retorno' = NoRetorno
    /\ planilha' = NoPlanilha
    /\ UNCHANGED <<financeiro, modelo1, contas_itens, adiantamento, resultado,
                   resultado_adiantamento, advLegacy, celula, datas, conc, manager>>

NextRun ==
    \/ RunImportacao
    \/ RunSemImportacao
    \/ RunProcessData
    \/ RunProcessDataRankError
    \/ RunProcessDataError
    \/ RunExportToExcel
    \/ Main
    \/ MainAgain

SpecRun == InitRun /\ [][NextRun]_vars

-----------------------------------------------------------------------------
(* Conciliacao: the result table and the workbook of an execution           *)

\* timedelta(minutes=10)
Janela == 10

MaxRelogio == 20

MaxExecucoes == 2

MaxBancos == 2

InitConc ==
    /\ financeiro = <<>>
    /\ modelo1 = <<>>
    /\ contas_itens = <<>>
    /\ adiantamento = <<>>
    /\ resultado = <<>>
    /\ resultado_adiantamento = <<>>
    /\ advLegacy = FALSE
    /\ lastOp = "init"
    /\ retorno = NoRetorno
    /\ results = <<>>
    /\ pc = 0
    /\ planilha = NoPlanilha
    /\ celula = NoCelula
    /\ datas = NoDatas
    /\ run = NoRun
    /\ conc = NoConc
    /\ manager = NoManager

ConcUnchanged ==
    UNCHANGED <<financeiro, modelo1, contas_itens, adiantamento, resultado,
                resultado_adiantamento, advLegacy, lastOp, retorno, results, pc, planilha,
                celula, datas, run, manager>>

\* the rows the execution e saved
SavedBy(tabela, e) == {tabela[i] : i \in {j \in DOMAIN tabela : tabela[j].execucao = e}}

\* the clock of the machine goes on, minutes at a time, between and during
\* the executions
Tick ==
    /\ conc.relogio + Janela \div 2 <= MaxRelogio
    /\ conc' = [conc EXCEPT !.relogio = @ + Janela \div 2]
    /\ ConcUnchanged

\* execucao(bancos_info) starts; the table keeps the rows of earlier
\* executions (CREATE TABLE IF NOT EXISTS, no DELETE)
ConcExecucao ==
    /\ conc.fase # "running"
    /\ conc.execucao < MaxExecucoes
    /\ conc' = [conc EXCEPT !.execucao = @ + 1, !.fase = "running"]
    /\ ConcUnchanged

\* _salvar_resultado for the next bank of bancos_info: the row is stamped
\* datetime.now(); execucao is not a column, it tells which execution saved
\* the row
SalvarResultado ==
    /\ conc.fase = "running"
    /\ Cardinality(SavedBy(conc.tabela, conc.execucao)) < MaxBancos
    /\ conc' = [conc EXCEPT !.tabela =
                  Append(@, [rowid |-> Len(@) + 1, data_processamento |-> conc.relogio,
                             execucao |-> conc.execucao])]
    /\ ConcUnchanged

\* WHERE data_processamento > ? with datetime.now() - timedelta(minutes=10)
NaJanela(tabela, agora) ==
    {tabela[i] : i \in {j \in DOMAIN tabela : tabela[j].data_processamento > agora - Janela}}

\* _gerar_planilha_resultados at the end of execucao: the rows the query
\* selects are written (ORDER BY decides their order only)
GerarPlanilhaResultados ==
    /\ conc.fase = "running"
    /\ conc' = [conc EXCEPT !.planilha = NaJanela(conc.tabela, conc.relogio), !.fase = "done"]
    /\ ConcUnchanged

NextConc ==
    \/ Tick
    \/ ConcExecucao
    \/ SalvarResultado
    \/ GerarPlanilhaResultados

SpecConc == InitConc /\ [][NextConc]_vars

-----------------------------------------------------------------------------
(* DatabaseManager: the instance and its connections                        *)

MaxConexoes == 5

InitManager == InitConc

ManagerUnchanged ==
    UNCHANGED <<financeiro, modelo1, contas_itens, adiantamento, resultado,
                resultado_adiantamento, advLegacy, lastOp, retorno, results, pc, planilha,
                celula, datas, run, conc>>

\* _initialize_database: self.conn = sqlite3.connect(...) without a close of
\* the connection self.conn held. The connection that lost its last
\* reference is closed by the interpreter at once (drop) or stays open until
\* a later collection
initialize_database(m, drop) ==
    [m EXCEPT !.conn = m.criadas + 1,
              !.criadas = m.criadas + 1,
              !.substituidas = IF m.conn \in m.abertas THEN @ \cup {m.conn} ELSE @,
              !.abertas = (IF drop THEN @ \ {m.conn} ELSE @) \cup {m.criadas + 1}]

\* DatabaseManager(): __new__ returns the one instance; __init__ runs
\* _initialize_database only the first time
Construct ==
    /\ ~manager.initialized => manager.criadas < MaxConexoes
    /\ \E drop \in BOOLEAN :
          manager' = IF manager.initialized
                     THEN [manager EXCEPT !.op = "__init__"]
                     ELSE [initialize_database(manager, drop) EXCEPT
                              !.instance = TRUE, !.initialized = TRUE, !.op = "__init__"]
    /\ ManagerUnchanged

\* __enter__: _initialize_database again
Enter ==
    /\ manager.initialized
    /\ manager.criadas < MaxConexoes
    /\ \E drop \in BOOLEAN :
          manager' = [initialize_database(manager, drop) EXCEPT !.op = "__enter__"]
    /\ ManagerUnchanged

\* close: self.conn.close() when self.conn is set; self.conn keeps the
\* closed connection
close(m) == [m EXCEPT !.abertas = @ \ {m.conn}]

Close ==
    /\ manager.initialized
    /\ manager' = [close(manager) EXCEPT !.op = "close"]
    /\ ManagerUnchanged

\* __exit__: self.close()
Exit ==
    /\ manager.op = "__enter__"
    /\ manager' = [close(manager) EXCEPT !.op = "__exit__"]
    /\ ManagerUnchanged

\* the interpreter collects a connection no name refers to
Collect ==
    /\ \E c \in manager.abertas \ {manager.conn} :
          manager' = [manager EXCEPT !.abertas = @ \ {c}, !.op = "collect"]
    /\ ManagerUnchanged

NextManager ==
    \/ Construct
    \/ Enter
    \/ Close
    \/ Exit
    \/ Collect

SpecManager == InitManager /\ [][NextManager]_vars

-----------------------------------------------------------------------------
(* Properties                                                              *)

\* the rows of a result table, as a set of positions
Rows(t) == 1..Len(t)

\* a total that is NULL or zero
NullOrZero(x) == x = NullNum \/ x = Num(0)

\* |L - A| <= 0.03 * max(|L|, |A|)
WithinTolerance(L, A) == 100 * Abs(L - A) <= 3 * Max(Abs(L), Abs(A))

\* the Pending rule of the specification: one side null or zero and the other
\* positive, or both sides null or zero
PendingRule(fin, cont) ==
    \/ NullOrZero(cont) /\ Coalesce(fin, 0) > 0
    \/ NullOrZero(fin) /\ Coalesce(cont, 0) > 0
    \/ NullOrZero(fin) /\ NullOrZero(cont)

\* C1: in every reachable state, committed or rolled back, every row of the
\* primary and of the advance result table has one of the three statuses
StatusAlwaysEnumerated ==
    /\ \A i \in Rows(resultado) :
          resultado[i].status \in {"Conferido", "Divergente", "Pendente"}
    /\ \A i \in Rows(resultado_adiantamento) :
          resultado_adiantamento[i].status \in {"Conferido", "Divergente", "Pendente"}

\* C1 witness: after a rolled-back run both tables hold rows of an earlier
\* commit, of more than one status
StatusWitness ==
    /\ lastOp = "failed"
    /\ resultado_adiantamento # <<>>
    /\ \E i, j \in Rows(resultado) :
          resultado[i].status = "Conferido" /\ resultado[j].status = "Divergente"

\* C2 (as claimed): after a committed run no two primary result rows have the
\* same codigo_fornecedor
CodigoFornecedorUnico ==
    lastOp = "committed" =>
        \A i, j \in Rows(resultado) :
            i # j => resultado[i].codigo_fornecedor # resultado[j].codigo_fornecedor

\* C3: after a committed run every row of both result tables has
\* diferenca = round(ledger total - accounting total, 2), a null total being 0
DiferencaArredondada ==
    lastOp = "committed" =>
        /\ \A i \in Rows(resultado) :
              resultado[i].diferenca =
                  Num(Round2(Coalesce(resultado[i].saldo_financeiro, 0)
                             - Coalesce(resultado[i].saldo_contabil, 0)))
        /\ \A i \in Rows(resultado_adiantamento) :
              resultado_adiantamento[i].diferenca =
                  Num(Round2(Coalesce(resultado_adiantamento[i].total_financeiro, 0)
                             - Coalesce(resultado_adiantamento[i].total_contabil, 0)))

\* C3 witness: a committed primary row whose raw difference is not a whole
\* number of hundredths, and a committed advance row with a null total
DiferencaWitness ==
    /\ lastOp = "committed"
    /\ \E i \in Rows(resultado) :
          (Coalesce(resultado[i].saldo_financeiro, 0)
           - Coalesce(resultado[i].saldo_contabil, 0)) % 10 # 0
    /\ \E i \in Rows(resultado_adiantamento) :
          resultado_adiantamento[i].total_contabil = NullNum

\* C4: after a committed run every primary row whose totals the Pending rule
\* does not cover is Conferido when |L - A| <= 3% of max(|L|, |A|) and
\* Divergente otherwise; 1000.00 against 1000.00 is Conferido with difference
\* 0.00 and 1000.00 against 800.00 is Divergente
ToleranceRule ==
    lastOp = "committed" =>
        \A i \in Rows(resultado) :
            LET L == Coalesce(resultado[i].saldo_financeiro, 0)
                A == Coalesce(resultado[i].saldo_contabil, 0)
            IN  /\ ~ PendingRule(resultado[i].saldo_financeiro, resultado[i].saldo_contabil) =>
                      /\ WithinTolerance(L, A) => resultado[i].status = "Conferido"
                      /\ ~ WithinTolerance(L, A) => resultado[i].status = "Divergente"
                /\ (L = 1000000 /\ A = 1000000) =>
                      resultado[i].status = "Conferido" /\ resultado[i].diferenca = Num(0)
                /\ (L = 1000000 /\ A = 800000) => resultado[i].status = "Divergente"

\* C4 witness: one committed result set with the 1000.00 / 1000.00 row and the
\* 1000.00 / 800.00 row
ToleranceWitness ==
    /\ lastOp = "committed"
    /\ \E i, j \in Rows(resultado) :
          /\ resultado[i].codigo_fornecedor = C123
          /\ resultado[i].saldo_financeiro = Num(1000000)
          /\ resultado[i].saldo_contabil = Num(1000000)
          /\ resultado[j].saldo_financeiro = Num(1000000)
          /\ resultado[j].saldo_contabil = Num(800000)

\* C5 (as claimed): after a committed run a row with one total null or zero
\* and the other positive is Pendente
UnmatchedIsPendente ==
    lastOp = "committed" =>
        \A i \in Rows(resultado) :
            (\/ NullOrZero(resultado[i].saldo_contabil)
                   /\ Coalesce(resultado[i].saldo_financeiro, 0) > 0
             \/ NullOrZero(resultado[i].saldo_financeiro)
                   /\ Coalesce(resultado[i].saldo_contabil, 0) > 0)
            => resultado[i].status = "Pendente"

\* C6 (as claimed): after a committed run a row whose two totals are both
\* null or zero is Pendente
BothZeroIsPendente ==
    lastOp = "committed" =>
        \A i \in Rows(resultado) :
            (NullOrZero(resultado[i].saldo_financeiro) /\ NullOrZero(resultado[i].saldo_contabil))
            => resultado[i].status = "Pendente"

\* C7: process_data run again right after a committed run, the source tables
\* unchanged, leaves both result tables with the rows they had
IdempotentRebuild ==
    [][(lastOp = "committed" /\ lastOp' = "committed") =>
          (resultado' = resultado /\ resultado_adiantamento' = resultado_adiantamento)]_vars

\* C7 witness: a committed result set with rows in both tables, from which
\* process_data runs again
IdempotentWitness ==
    /\ lastOp = "committed"
    /\ Len(resultado) > 1
    /\ resultado_adiantamento # <<>>
    /\ \E i \in Rows(resultado) : resultado[i].status = "Divergente"

\* the ledger entries the primary pass takes
PrimaryEntries == SelectSeq(financeiro, LAMBDA f : f.excluido = 0)

\* C8: after a committed run the ledger totals of the primary rows add up to
\* the open balances of the ledger entries the primary pass takes, and every
\* counterparty of those entries has a row
Conservation ==
    lastOp = "committed" =>
        /\ SumInts(Map(resultado, LAMBDA r : Coalesce(r.saldo_financeiro, 0)))
              = SumInts(Map(PrimaryEntries, LAMBDA f : f.saldo_devedor))
        /\ \A k \in Rows(PrimaryEntries) :
              \E i \in Rows(resultado) :
                  resultado[i].codigo_fornecedor = Trim(PrimaryEntries[k].fornecedor)

\* C8 witness: a committed run over a ledger with a flagged entry, a
\* zero-balance counterparty and an accounting-only row
ConservationWitness ==
    /\ lastOp = "committed"
    /\ \E k \in Rows(financeiro) : financeiro[k].excluido = 1
    /\ \E k \in Rows(financeiro) : financeiro[k].excluido = 0 /\ financeiro[k].saldo_devedor = 0
    /\ \E i \in Rows(resultado) : resultado[i].codigo_fornecedor = FORNECEDORES

\* C9 (as claimed): a process_data that fails leaves both result tables as
\* they were before it began
FailureLeavesCommittedResults ==
    [][lastOp' = "failed" =>
          (resultado' = resultado /\ resultado_adiantamento' = resultado_adiantamento)]_vars

\* |diferenca| of a primary row
AbsDif(i) == Abs(Coalesce(resultado[i].diferenca, 0))

\* the rows with the largest |diferenca|
Top == {i \in Rows(resultado) : \A j \in Rows(resultado) : AbsDif(i) >= AbsDif(j)}

HasItemLine(i) ==
    \E k \in Rows(contas_itens) : ItemMatch(contas_itens[k], resultado[i])

\* C11 (as claimed): after a committed run the detail of every Divergente
\* primary row holds the matching item-level lines or, when no item-level
\* line matches its code, the 'investigate manually' marker
DivergenteExplained ==
    lastOp = "committed" =>
        \A i \in Rows(resultado) :
            resultado[i].status = "Divergente" =>
                IF HasItemLine(i) THEN resultado[i].detalhes.kind = "itens"
                ELSE resultado[i].detalhes.kind = "manual"

\* the call of import_from_excel last made got as far as the column check
ColumnsChecked == retorno.erro \in {"", "PlanilhaFormatacaoErradaError"} /\ retorno.table # ""

\* the required columns of the target that df.columns lacks after resolution
\* and derivation
Unresolved == SelectSeq(get_expected_columns(retorno.table),
                        LAMBDA c : ~HasColumn(retorno.columns, c))

\* success only with every required column at hand; otherwise the format
\* error names exactly the columns left unresolved and no row is written
ResolvedOrNamed ==
    ColumnsChecked =>
        /\ retorno.ok <=> Unresolved = <<>>
        /\ retorno.ok => retorno.erro = ""
        /\ ~retorno.ok =>
              /\ retorno.erro = "PlanilhaFormatacaoErradaError"
              /\ retorno.missing = Unresolved
              /\ retorno.rows = <<>>

ImportReplaces ==
    [][(/\ retorno'.ok
        /\ <<financeiro, modelo1, contas_itens, adiantamento, retorno>>'
               # <<financeiro, modelo1, contas_itens, adiantamento, retorno>>) =>
          /\ retorno'.table = "financeiro" =>
                financeiro' = retorno'.rows /\ UNCHANGED <<modelo1, contas_itens, adiantamento>>
          /\ retorno'.table = "modelo1" =>
                modelo1' = retorno'.rows /\ UNCHANGED <<financeiro, contas_itens, adiantamento>>
          /\ retorno'.table = "contas_itens" =>
                contas_itens' = retorno'.rows /\ UNCHANGED <<financeiro, modelo1, adiantamento>>
          /\ retorno'.table = "adiantamento" =>
                adiantamento' = retorno'.rows /\ UNCHANGED <<financeiro, modelo1, contas_itens>>
          /\ UNCHANGED <<resultado, resultado_adiantamento>>]_vars

\* a ledger file of one row was imported over a ledger table that held rows,
\* next to a trial-balance table that holds rows
ImportReplacesWitness ==
    /\ retorno.ok
    /\ retorno.table = "financeiro"
    /\ retorno.had_rows
    /\ Len(retorno.rows) = 1
    /\ financeiro = retorno.rows
    /\ modelo1 # <<>>

\* the entries of the results list that belong to the source named
EntriesOf(nome) == {i \in DOMAIN results : results[i].nome = nome}

\* C14 (as claimed): in a run a failed import changes no table and the loop
\* goes on to the next source, and when the loop ends every source of
\* arquivos_importar has exactly one success-or-failure entry in results
RunReportsEverySource ==
    [][/\ (pc \in DOMAIN arquivos_importar /\ retorno' # retorno /\ ~retorno'.ok) =>
             /\ UNCHANGED <<financeiro, modelo1, contas_itens, adiantamento>>
             /\ pc' = pc + 1
       /\ pc' = Len(arquivos_importar) + 1 =>
             \A k \in DOMAIN arquivos_importar :
                 Cardinality(EntriesOf(arquivos_importar[k][1])') = 1]_vars

\* the fixed sheet set: the summary, one detail sheet per source table, the
\* advance summary and the metadata
FixedSheets ==
    {"Resumo da Conciliacao", "Titulos a Pagar", "Balancete", "Contas x Itens", "Adiantamento",
     "Resumo Adiantamentos", "Metadados"}

\* a workbook shows a sheet with every column header the export gives it
ShowsSheet(workbook, sheet) ==
    /\ sheet \in DOMAIN workbook
    /\ \A j \in DOMAIN HeaderWritten(sheet) : InSeq(workbook[sheet], HeaderWritten(sheet)[j])

\* C15 (as claimed): export_to_excel returns a path only if the workbook
\* opened again shows every sheet of the fixed sheet set with every column
\* header; on a mismatch it raises the export error
ExportValidated ==
    planilha.retorno = "output_path" => \A sheet \in FixedSheets : ShowsSheet(planilha.aberta, sheet)

\* C16 (as claimed): for every source type, a cleaned monetary cell in locale
\* format is stored as the plain decimal number it writes
CleanedIsNumber == celula.limpo => IsAmount(celula.gravado, celula.centavos)

\* the value that belongs to an item label of the metadata sheet
OwnValue(item) ==
    CASE item = "Data e Hora do Processamento" -> "datetime.now"
      [] item = "Periodo de Referencia" -> "data_inicial a data_final"
      [] item = "Total de Fornecedores Processados" -> "total_registros"
      [] item = "Conciliacoes Conferidas" -> "conciliados_ok"
      [] item = "Conciliacoes Divergentes" -> "divergentes"
      [] item = "Conciliacoes Pendentes" -> "pendentes"
      [] item = "Total Financeiro (R$)" -> "total_financeiro"
      [] item = "Total Contabil (R$)" -> "total_contabil"
      [] item = "Saldo Liquido da Conciliacao (R$)" -> "diferenca_geral"
      [] item = "Legenda de Status" -> TextoLegenda
      [] item = "Tolerancia de Diferenca" -> TextoTolerancia

\* C20 (as claimed): the metadata sheet of a returned export pairs every item
\* label with its own value, and the tolerance rule stands as text under the
\* tolerance label
MetadataPaired ==
    planilha.retorno = "output_path" =>
        /\ \A i \in DOMAIN planilha.metadados :
              planilha.metadados[i].Valor.de = OwnValue(planilha.metadados[i].Item)
        /\ \E i \in DOMAIN planilha.metadados :
              /\ planilha.metadados[i].Item = "Tolerancia de Diferenca"
              /\ planilha.metadados[i].Valor.de = TextoTolerancia

\* a ledger entry that belongs to the advance subset
IsAdvanceEntry(f) == Upper(f.tipo_titulo) \in TiposAdiantamento

\* the ledger total of a counterparty without the entries flagged excluded
\* and without the advance subset
PrimaryTotal(k) ==
    SumInts(Map(SelectSeq(financeiro, LAMBDA f : /\ Trim(f.fornecedor) = k
                                                 /\ f.excluido = 0
                                                 /\ ~IsAdvanceEntry(f)),
                LAMBDA f : f.saldo_devedor))

\* C17 (as claimed): ledger entries flagged excluded or of an excluded
\* document type (NDF, PA) add to no primary result row's ledger total; only
\* the advance pass counts them
AdvanceEntriesOnlyInAdvancePass ==
    lastOp = "committed" =>
        \A i \in Rows(resultado) :
            (\E j \in DOMAIN financeiro :
                Trim(financeiro[j].fornecedor) = resultado[i].codigo_fornecedor)
                => resultado[i].saldo_financeiro = Num(PrimaryTotal(resultado[i].codigo_fornecedor))

\* strategy (a): the trial-balance lines whose code is the code of a result row
CodeLines(r) ==
    SelectSeq(modelo1, LAMBDA m : SqlEq(m.codigo_fornecedor, r.codigo_fornecedor)
                                  /\ m.codigo_fornecedor # <<>>)

\* the accounting total of a result row from the lines of strategy (a) and
\* the advance balances of its code
CodeTotal(r) ==
    Coalesce(SumNullable(Map(CodeLines(r), LAMBDA m : m.saldo_atual)), 0)
        + Coalesce(SumNullable(Map(SelectSeq(adiantamento,
                                             LAMBDA a : SqlEq(a.codigo_fornecedor, r.codigo_fornecedor)),
                                   LAMBDA a : a.saldo_atual)), 0)

\* C18 (as claimed): when the exact code strategy finds a trial-balance line
\* for a ledger aggregate, lines found by description add nothing to its
\* accounting total
CodeMatchPrecedes ==
    lastOp = "committed" =>
        \A i \in Rows(resultado) :
            (/\ \E j \in DOMAIN financeiro :
                    /\ Trim(financeiro[j].fornecedor) = resultado[i].codigo_fornecedor
                    /\ financeiro[j].excluido = 0
             /\ CodeLines(resultado[i]) # <<>>)
                => resultado[i].saldo_contabil = Num(CodeTotal(resultado[i]))

\* C19 (as claimed): after a committed run every Divergente row of the
\* advance result carries a detail that is not empty, as the primary rows do
\* after the investigation and manual-marker steps
AdvanceDivergenteExplained ==
    lastOp = "committed" =>
        \A i \in Rows(resultado_adiantamento) :
            resultado_adiantamento[i].status = Divergente =>
                resultado_adiantamento[i].detalhes # NoDetalhes

\* C21 (as claimed): the difference shown for a counterparty on the summary
\* sheet of a returned export has the value and the sign of the diferenca
\* that process_data stored (ledger total minus accounting total)
SummaryKeepsSign ==
    planilha.retorno = "output_path" =>
        \A i \in Rows(resultado) :
            planilha.resumo[i].diferenca = Coalesce(resultado[i].diferenca, 0)

\* the number of result rows whose |diferenca| is at least that of row i
CountAtLeast(i) == Cardinality({j \in Rows(resultado) : AbsDif(j) >= AbsDif(i)})

ErrorAborts ==
    [][((ProcessDataRankError \/ ProcessDataError) /\ ~ProcessData) =>
          /\ lastOp' = "failed"
          /\ resultado' = resultado
          /\ resultado_adiantamento' = resultado_adiantamento]_vars

\* C24 (as claimed): the detail of a Divergente row holds at most 5
\* item-level lines, however many lines match its code
AtMostFiveItems ==
    lastOp = "committed" =>
        \A i \in Rows(resultado) :
            (resultado[i].status = Divergente /\ resultado[i].detalhes.kind = "itens")
                => Len(resultado[i].detalhes.parts) <= 5

\* the canonical form of a date text read on its own, NULL when it is no date
Canonical(t) ==
    IF ParseOne(RTrim(LTrim(t))) = NaT THEN NULL ELSE strftime(ParseOne(RTrim(LTrim(t))))

\* C25: ledger cleaning handles each date value on its own: a day-first or
\* year-first value is stored in the canonical form and a value that is no
\* date is stored as null, whatever the other rows of the column hold
EachDateOnItsOwn ==
    datas.limpo =>
        /\ Len(datas.depois) = Len(datas.antes)
        /\ \A i \in DOMAIN datas.antes : datas.depois[i] = Canonical(datas.antes[i])

\* the import loop gave a 'success' entry
SomeImportSucceeded ==
    \E i \in DOMAIN results : results[i].nome \in Tables /\ results[i].status = "success"

\* a step of run that calls process_data
CallsProcessData == run'.process_data # "" /\ run'.process_data # run.process_data

\* a step of run that calls export_to_excel
CallsExportToExcel == run'.export_to_excel # "" /\ run'.export_to_excel # run.export_to_excel

\* C26: run calls process_data only after the import loop went through every
\* source and one import succeeded, and calls export_to_excel only after
\* process_data of the same run returned True on its commit, so that an export
\* follows no failed or skipped reconciliation
RunGated ==
    [][/\ CallsProcessData =>
            /\ pc = Len(arquivos_importar) + 1
            /\ SomeImportSucceeded
       /\ CallsExportToExcel =>
            /\ run.process_data = "True"
            /\ lastOp = "committed"
            /\ resultado' = resultado
            /\ resultado_adiantamento' = resultado_adiantamento]_vars

\* a run exported after an import failed
RunGatedWitness ==
    /\ run.export_to_excel = "output_path"
    /\ run.importacoes_realizadas = 1
    /\ \E i \in DOMAIN results : results[i].nome \in Tables /\ results[i].status = "error"

\* an import, the reconciliation or the export of the run failed
StageFailed ==
    \/ \E i \in DOMAIN results :
          results[i].nome \in Tables \cup {"importacao", "database"} /\ results[i].status # "success"
    \/ run.process_data = "raised"
    \/ run.export_to_excel = "ResultsSaveError"

\* C27: main sends the success notification and returns the success code
\* only if no import, the reconciliation and the export did not fail
SuccessOnlyIfNoStageFailed ==
    (run.email = "success" \/ run.code = 0) => ~StageFailed

\* C28: the workbook _gerar_planilha_resultados writes at the end of an
\* execution holds exactly the rows that execution saved: no row of an
\* earlier execution, every row of this one, whatever the time that passed
WorkbookIsThisExecution ==
    conc.fase = "done" => conc.planilha = SavedBy(conc.tabela, conc.execucao)

\* C30: across construction, __enter__, __exit__ and close the manager has
\* at most one open connection, replaces no connection that is still open,
\* and has closed every connection it opened when __exit__ returns
ConnectionManagedSafely ==
    /\ Cardinality(manager.abertas) <= 1
    /\ manager.substituidas = {}
    /\ manager.op = "__exit__" => manager.abertas = {}

\* the result rows of the ledger aggregates come first in the result table
LedgerRows == 1..Len(InsertFinanceiro(<<>>, financeiro))

\* the ledger-matched rows whose accounting total sums the line m
MatchedRows(m) == {i \in LedgerRows \cap Rows(resultado) : ContabilMatch(m, resultado[i])}

\* the line m went into an accounting-only row: it is a supplier account whose
\* key is the code of no ledger aggregate, and the row of its group is there
InAccountingOnlyRow(m) ==
    /\ LikePrefix(m.descricao_conta, FORNEC)
    /\ ~ \E i \in LedgerRows \cap Rows(resultado) :
            SqlEq(resultado[i].codigo_fornecedor, ChaveContabil(m))
    /\ \E i \in Rows(resultado) \ LedgerRows :
            /\ resultado[i].codigo_fornecedor = CodigoSemMatch(m)
            /\ resultado[i].descricao_fornecedor = DescricaoSemMatch(m)

\* C29: after a committed run the balance of a trial-balance line is in the
\* accounting total of at most one primary result row: a line summed into a
\* ledger-matched row is in no accounting-only row and in no other row
AccountingCountedOnce ==
    lastOp = "committed" =>
        \A j \in DOMAIN modelo1 :
            Cardinality(MatchedRows(modelo1[j]))
                + (IF InAccountingOnlyRow(modelo1[j]) THEN 1 ELSE 0) <= 1

====
